---- MODULE Spec2Model ----
(***************************************************************************)
(* BLE-to-MQTT bridge (firmware/main.py, firmware/ble_bridge.py).          *)
(*                                                                         *)
(* The model follows the cooperative scheduling of the firmware: every     *)
(* action is the code that runs between two suspension points (awaits) of  *)
(* one activity.  The activities are the main loop (command router), the   *)
(* scan loop (batch or streaming, by board), the notify-forwarders, the    *)
(* mqtt on_connect task, and the environment (bus messages arriving, the   *)
(* network link dropping, the peer dropping the BLE link).                 *)
(***************************************************************************)
EXTENDS Integers, Sequences, FiniteSets, TLC

VARIABLES
    board,            \* the board module selected at import (board.py)
    char_subscribed,  \* main._char_subscribed
    busy,             \* main._busy
    scan_paused,      \* main._scan_paused
    subs_ready,       \* main._subs_ready
    pending,          \* main._pending: FIFO of [id, t, msg]
    bridge,           \* the BleBridge instance: its fields
    fw,               \* the notify-forwarder tasks, one slot per characteristic
    link,             \* the radio link of bridge.conn: "none","up","peer_lost","closed"
    ble_active,       \* _ble.active()
    mqttUp,           \* client.isconnected()
    brokerWild,       \* the broker holds the write/# and read/# subscriptions
    ocPc,             \* position of the on_connect task
    sPc,              \* position of the scan loop
    scanErr,          \* the batch scan cycle that just ended went through its except clause
    rPc,              \* position of the main loop / the running handler
    polls,            \* sleeps done by the wait loop of handle_connect
    cur,              \* the command being executed: [id, t, msg]; id 0 = none
    errCause,         \* what the last handler raised ("none" if it returned)
    nDone,            \* commands whose handler has returned or raised
    nBus,             \* messages delivered by the bus callback so far
    limit,            \* messages the environment may still choose freely
    script,           \* messages the environment delivers in this order
    cbCount,          \* on_disconnect invocations since the last set_on_disconnect
    lossCount,        \* forwarders ended on link loss since the last set_on_disconnect
    nSub,             \* subscriptions to write/# and read/# made by handle_connect
    discSinceConn,    \* disconnected events published since the last connected event
    lastEvents,       \* the connection events published: "" none, "d" disconnected only,
                      \* "c" connected last, "cd" a disconnected after a connected;
                      \* "off" where the events are not recorded
    rtrRadio,         \* the last step was a command handler calling into the radio
    e2e,              \* progress of the session connect, write, disconnect
    raw_results,      \* BleBridge._raw_results (streaming) / raw_results of scan() (batch)
    seen,             \* BleBridge._seen (streaming) / seen of scan() (batch)
    seen_cycle,       \* BleBridge._seen_cycle
    cap_logged,       \* BleBridge._cap_logged (streaming) / _cap_logged of scan() (batch)
    dPc,              \* position of scan() / drain_results: "idle","scanning","merging"
    raw,              \* the part of the swapped buffer the for loop has not reached
    out,              \* the list scan() / drain_results returned last
    nRep,             \* reports the radio has delivered to the event callback
    accepted,         \* the reports the callback appended to the buffer
    mcount,           \* per serial number: times the report was merged into the table
    discarded,        \* serial numbers dropped by stop_streaming / start_streaming
    cycRep,           \* reports delivered in the current scan cycle
    cycNote,          \* cap notices printed in the current scan cycle
    shown,            \* per address: returned lists naming it since its last merge
    m_raw,            \* a buffer of raw reports handed to the processing loop
    m_i,              \* entries of m_raw the loop has processed
    m_seen,           \* the table the loop merges into
    m_results,        \* the filtered list computed from the table
    m_st,             \* "loop", "returned", "raised"
    ticks,            \* time.ticks_ms()
    last_beep_time,   \* main._last_beep_time
    scale_macs,       \* main._scale_macs
    sinceAlert,       \* milliseconds since the last alert, counted up to the window + 1
    minGap,           \* smallest time between two alerts so far
    nAlerts,          \* alerts fired so far
    cycleAlerts,      \* alerts fired by the last call of _check_scale_beep
    cycleHit,         \* the results of that call held a configured target address
    nTicks,           \* time steps taken
    u16,              \* a 16-bit UUID, as its two bytes << high, low >>
    n_short,          \* _norm_uuid of the 16-bit UUID object (<< >> before the call)
    n_full,           \* _norm_uuid of the 128-bit UUID object of the same UUID
    calls             \* the calls made on the bridge directly, with their outcomes

vars == << board, char_subscribed, busy, scan_paused, subs_ready, pending, bridge,
           fw, link, ble_active, mqttUp, brokerWild, ocPc, sPc, scanErr,
           rPc, polls, cur, errCause, nDone, nBus, limit, script, cbCount, lossCount,
           nSub, discSinceConn, lastEvents, rtrRadio, e2e,
           raw_results, seen, seen_cycle, cap_logged, dPc, raw, out, nRep, accepted,
           mcount, discarded, cycRep, cycNote, shown,
           m_raw, m_i, m_seen, m_results, m_st,
           ticks, last_beep_time, scale_macs, sinceAlert, minGap, nAlerts,
           cycleAlerts, cycleHit, nTicks, u16, n_short, n_full, calls >>

(***************************************************************************)
(* Bounds of the model.                                                    *)
(***************************************************************************)
MaxArrivals == 2
MaxArrivalsNet == 2
\* calls made on the bridge in a run of CallSpec
MaxCalls == 3

\* reports the radio delivers in a run of the buffer model
MaxDelivered == 4
\* length of the buffers handed to the processing loop
MaxReports == 3
\* length of the advertising data handed to the parser
MaxAdvLen == 4
\* board.MAX_SCAN_ENTRIES (200 or 500 on the boards), scaled down
MAX_SCAN_ENTRIES == 2

\* handle_connect: for _ in range(60)
WAIT_POLLS == 60
\* board_esp32_s3.SEEN_RESET_CYCLES
SEEN_RESET_CYCLES == 5
\* _check_scale_beep: the debounce window in milliseconds
DEBOUNCE_MS == 60000
\* time steps of the debounce model
MaxTicks == 4

(***************************************************************************)
(* Board abstraction layer.                                                *)
(***************************************************************************)
Boards == {"atom_echo", "esp32_s3"}

CONTINUOUS_SCAN == board = "esp32_s3"

DEACTIVATE_BLE_AFTER_SCAN == board = "atom_echo"

(***************************************************************************)
(* The peripheral: characteristics a discovery can return.                 *)
(***************************************************************************)
UUIDS == {"2a9d", "fff1", "fff2", "fff3"}

Props(u) ==
    CASE u = "2a9d" -> {"read"}
      [] u = "fff1" -> {"notify", "write"}
      [] u = "fff2" -> {"notify", "write-without-response"}
      [] u = "fff3" -> {"write", "write-without-response"}

NotifyUuids == {u \in UUIDS : "notify" \in Props(u)}

Profiles == { {}, {"2a9d", "fff1"}, {"2a9d", "fff1", "fff2"} }

\* registry contents when a discovery is interrupted
PartialProfiles == { {}, {"2a9d", "fff1"} }

WriteUuid == "fff1"
ReadUuid == "2a9d"

Topics == {"connect", "disconnect", "write", "read"}
BLE_DISCONNECTED == "__ble_disconnected__"

NoCmd == [id |-> 0, t |-> "", msg |-> ""]

NoTask == [st |-> "none", cancelled |-> FALSE, topic |-> ""]

(***************************************************************************)
(* BleBridge operations, as functions on the bridge's fields.              *)
(***************************************************************************)
BridgeInit ==
    [conn |-> "None", chars |-> {}, notify_tasks |-> {}, on_disconnect |-> FALSE,
     disconnect_fired |-> FALSE, streaming |-> FALSE]

\* variant of set_on_disconnect that does not re-arm the signal
set_on_disconnect_no_rearm(b) == [b EXCEPT !.on_disconnect = TRUE]

set_on_disconnect(b) ==
    [b EXCEPT !.on_disconnect = TRUE, !.disconnect_fired = FALSE]

start_streaming(b) == [b EXCEPT !.streaming = TRUE]

stop_streaming(b) == IF b.streaming THEN [b EXCEPT !.streaming = FALSE] ELSE b

\* variant of disconnect_begin that does not mark the signal as fired
disconnect_begin_unmarked(b) == [b EXCEPT !.notify_tasks = {}]

\* BleBridge.disconnect up to its await: suppress the callback, drop the task list.
disconnect_begin(b) ==
    [b EXCEPT !.disconnect_fired = TRUE, !.notify_tasks = {}]

\* variant of CancelTasks that cancels nothing
CancelTasks_none(f, S) == f

\* variant of CancelTasks that skips a task in the middle of a publish
CancelTasks_not_publishing(f, S) ==
    [u \in NotifyUuids |->
        IF u \in S /\ f[u].st \notin {"none", "done", "publishing"}
        THEN [f[u] EXCEPT !.cancelled = TRUE]
        ELSE f[u]]

\* task.cancel() for every task of the list; a finished task ignores it.
CancelTasks(f, S) ==
    [u \in NotifyUuids |->
        IF u \in S /\ f[u].st \notin {"none", "done"}
        THEN [f[u] EXCEPT !.cancelled = TRUE]
        ELSE f[u]]

\* variant of disconnect_end that keeps the link reference
disconnect_end_keeps_conn(b) == [b EXCEPT !.chars = {}]

\* variant of disconnect_end that keeps the registry
disconnect_end_keeps_chars(b) == [b EXCEPT !.conn = "None"]

\* BleBridge.disconnect after the link release: forget the link and the registry.
disconnect_end(b) == [b EXCEPT !.conn = "None", !.chars = {}]

\* BleBridge.disconnect, last step: power the radio down on shared-radio boards.
disconnect_radio(a) == IF DEACTIVATE_BLE_AFTER_SCAN THEN FALSE ELSE a

\* variant of the registry lookup that finds every UUID
chars_get_any(b, u) == TRUE

\* self._chars.get(uuid_str): is the UUID in the registry of the connection
chars_get(b, u) == u \in b.chars

\* BleBridge.start_notify: the task list after the call; no task for a UUID
\* the registry does not hold
start_notify(b, u) ==
    IF chars_get(b, u) THEN [b EXCEPT !.notify_tasks = @ \cup {u}] ELSE b

\* variant of write that always asks for a response
write_always_response(b, u) ==
    IF chars_get(b, u) THEN "write_response" ELSE "none"

\* BleBridge.write: the radio operation issued; use_response is the plain
\* write bit of the characteristic's properties
write(b, u) ==
    IF chars_get(b, u)
    THEN IF "write" \in Props(u) THEN "write_response" ELSE "write_no_response"
    ELSE "none"

\* BleBridge.read: the bytes returned, data being what the radio read gives
read(b, u, data) == IF chars_get(b, u) THEN data ELSE << >>

\* start_notify for every characteristic of the result advertising notify.
start_notify_all(b) ==
    [b EXCEPT !.notify_tasks =
        b.notify_tasks \cup {u \in b.chars : "notify" \in Props(u)}]

\* make_publish_fn(u): the sink handed to start_notify; whatever source UUID
\* the forwarder passes, it publishes under notify/<u>
make_publish_fn(u) == [_source_uuid \in UUIDS |-> u]

NewTasks(f, b) ==
    [u \in NotifyUuids |->
        IF u \in b.chars
        THEN [st |-> "new", cancelled |-> FALSE, topic |-> make_publish_fn(u)[u]]
        ELSE f[u]]

\* the test at the end of _notify_loop
LinkLostSeen(b, lk) == ~b.disconnect_fired /\ b.conn # "None" /\ lk # "up"

\* variant of publish_error without its try/except
publish_error_unguarded(outcome) == IF outcome = "fail" THEN "raised" ELSE "returned"

\* publish_error: the publish is tried, a failure is swallowed, the caller resumes.
publish_error(outcome) == "returned"

(***************************************************************************)
(* The command queue.                                                      *)
(***************************************************************************)
Executing == cur.id # 0

NextId == nDone + (IF Executing THEN 1 ELSE 0) + Len(pending) + 1

\* on_message / the on_disconnect lambda: _pending.append((t, msg))
Enqueue(q, t, msg) == Append(q, [id |-> NextId, t |-> t, msg |-> msg])

\* variant of the pop that takes the newest entry
PopIndex_last(q) == Len(q)

\* main: t, msg = _pending.pop(0)
PopIndex(q) == 1

Remove(q, i) == [j \in 1..(Len(q) - 1) |-> IF j < i THEN q[j] ELSE q[j + 1]]

E2eNext(e, c, ok) ==
    CASE e = "start" /\ c.t = "connect" /\ ok -> "c"
      [] e = "c" /\ c.t = "write" -> "cw"
      [] e = "cw" /\ c.t = "disconnect" /\ ok -> "cwd"
      [] OTHER -> "off"

\* bookkeeping when the handler of command c returns (ok) or raises
Done(c, ok) ==
    /\ nDone' = nDone + 1
    /\ e2e' = E2eNext(e2e, c, ok)
    /\ cur' = NoCmd

Return(c) == rPc' = "idle" /\ errCause' = "none" /\ Done(c, TRUE)

\* the exception reaches main's except clause, which awaits publish_error
Raise(c, cause) == rPc' = "err" /\ errCause' = cause /\ Done(c, FALSE)

\* the scan data of the bridge and the inputs of the processing loop
bufVars == << raw_results, seen, seen_cycle, cap_logged, dPc, raw, out >>
ghostVars == << nRep, accepted, mcount, discarded, cycRep, cycNote, shown >>
loopVars == << m_raw, m_i, m_seen, m_results, m_st >>
beepVars == << ticks, last_beep_time, scale_macs, sinceAlert, minGap, nAlerts,
              cycleAlerts, cycleHit, nTicks >>
uuidVars == << u16, n_short, n_full >>
dataVars == << bufVars, ghostVars, loopVars, beepVars, uuidVars, calls >>

envVars == << board, mqttUp, ocPc, nBus, limit, script, nSub, dataVars >>
scanVars == << sPc, scanErr >>
sigVars == << cbCount, lossCount >>

\* the record of connection events after client.publish of topic("connected")
\* or topic("disconnected") went through
Published(log, ev) ==
    CASE log = "off" -> "off"
      [] ev = "connected" -> "c"
      [] log \in {"c", "cd"} -> "cd"
      [] OTHER -> "d"

(***************************************************************************)
(* handle_connect                                                          *)
(***************************************************************************)
\* variant of the except clause that leaves the scanner paused
handle_connect_except_paused(c, b, cause) ==
    /\ scan_paused' = scan_paused
    /\ bridge' = IF CONTINUOUS_SCAN THEN start_streaming(b) ELSE b
    /\ busy' = FALSE
    /\ Raise(c, cause)

\* variant of the except clause that does not restart the indefinite scan
handle_connect_except_no_restart(c, b, cause) ==
    /\ scan_paused' = FALSE
    /\ bridge' = b
    /\ busy' = FALSE
    /\ Raise(c, cause)

\* except/finally of handle_connect: resume scanning, release busy, re-raise.
handle_connect_except(c, b, cause) ==
    /\ scan_paused' = FALSE
    /\ bridge' = IF CONTINUOUS_SCAN THEN start_streaming(b) ELSE b
    /\ busy' = FALSE
    /\ Raise(c, cause)

\* handle_connect from "_busy = True" to its first suspension; b is the bridge
\* as the entry code left it.
ConnectTry(c, b) ==
    \/ /\ c.msg = "bad"                      \* json.loads / data["address"] raises
       /\ handle_connect_except(c, b, "payload")
       /\ ble_active' = IF CONTINUOUS_SCAN THEN TRUE ELSE ble_active
       /\ rtrRadio' = CONTINUOUS_SCAN
       /\ UNCHANGED << fw, link >>
    \/ /\ c.msg # "bad"
       /\ b.conn # "None"                    \* bridge.disconnect awaits the link release
       /\ busy' = TRUE
       /\ scan_paused' = TRUE
       /\ bridge' = disconnect_begin(b)
       /\ fw' = CancelTasks(fw, b.notify_tasks)
       /\ rPc' = "c_disc"
       /\ cur' = c
       /\ rtrRadio' = TRUE
       /\ UNCHANGED << link, ble_active, errCause, nDone, e2e >>
    \/ /\ c.msg # "bad"
       /\ b.conn = "None"                    \* bridge.disconnect runs through; connect starts
       /\ busy' = TRUE
       /\ scan_paused' = TRUE
       /\ bridge' = disconnect_end(disconnect_begin(b))
       /\ fw' = CancelTasks(fw, b.notify_tasks)
       /\ ble_active' = TRUE
       /\ rPc' = "c_connecting"
       /\ cur' = c
       /\ rtrRadio' = TRUE
       /\ UNCHANGED << link, errCause, nDone, e2e >>

DispatchConnect ==
    /\ rPc = "idle"
    /\ pending # <<>>
    /\ LET c == pending[PopIndex(pending)] IN
       /\ c.t = "connect"
       /\ pending' = Remove(pending, PopIndex(pending))
       /\ IF ~CONTINUOUS_SCAN /\ busy
          THEN /\ scan_paused' = TRUE
               /\ rPc' = "c_wait"
               /\ cur' = c
               /\ rtrRadio' = FALSE
               /\ UNCHANGED << busy, bridge, fw, link, ble_active, errCause, nDone, e2e >>
          ELSE ConnectTry(c, IF CONTINUOUS_SCAN THEN stop_streaming(bridge) ELSE bridge)
    /\ polls' = 0
    /\ UNCHANGED << envVars, scanVars, sigVars, char_subscribed, subs_ready,
                    brokerWild, discSinceConn, lastEvents >>

\* a poll of the wait loop finds _busy set and sleeps
ConnectWaitPoll ==
    /\ rPc = "c_wait"
    /\ busy
    /\ polls < WAIT_POLLS
    /\ polls' = polls + 1
    /\ rtrRadio' = FALSE
    /\ UNCHANGED << envVars, scanVars, sigVars, char_subscribed, subs_ready,
                    brokerWild, discSinceConn, lastEvents, pending, busy, scan_paused, bridge,
                    fw, link, ble_active, rPc, cur, errCause, nDone, e2e >>

\* a poll of the wait loop, or the test after it, finds _busy clear
ConnectWaitClear ==
    /\ rPc = "c_wait"
    /\ ~busy
    /\ ConnectTry(cur, bridge)
    /\ polls' = 0
    /\ UNCHANGED << envVars, scanVars, sigVars, char_subscribed, subs_ready,
                    brokerWild, discSinceConn, lastEvents, pending >>

\* variant of the rejection that releases _busy
ConnectWaitExpire_clears_busy ==
    /\ rPc = "c_wait"
    /\ busy
    /\ polls = WAIT_POLLS
    /\ polls' = 0
    /\ scan_paused' = FALSE
    /\ busy' = FALSE
    /\ rPc' = "c_rej"
    /\ rtrRadio' = FALSE
    /\ UNCHANGED << envVars, scanVars, sigVars, char_subscribed, subs_ready,
                    brokerWild, discSinceConn, lastEvents, pending, bridge, fw, link,
                    ble_active, cur, errCause, nDone, e2e >>

\* variant of the rejection that leaves the scanner paused
ConnectWaitExpire_keeps_paused ==
    /\ rPc = "c_wait"
    /\ busy
    /\ polls = WAIT_POLLS
    /\ polls' = 0
    /\ scan_paused' = scan_paused
    /\ rPc' = "c_rej"
    /\ rtrRadio' = FALSE
    /\ UNCHANGED << envVars, scanVars, sigVars, char_subscribed, subs_ready,
                    brokerWild, discSinceConn, lastEvents, pending, busy, bridge, fw, link,
                    ble_active, cur, errCause, nDone, e2e >>

\* all polls of the wait loop found _busy set, and so does the test after it: reject
ConnectWaitExpire ==
    /\ rPc = "c_wait"
    /\ busy
    /\ polls = WAIT_POLLS
    /\ polls' = 0
    /\ scan_paused' = FALSE
    /\ rPc' = "c_rej"
    /\ rtrRadio' = FALSE
    /\ UNCHANGED << envVars, scanVars, sigVars, char_subscribed, subs_ready,
                    brokerWild, discSinceConn, lastEvents, pending, busy, bridge, fw, link,
                    ble_active, cur, errCause, nDone, e2e >>

ConnectRejected ==
    /\ rPc = "c_rej"
    /\ \E o \in {"ok", "fail"} : publish_error(o) = "returned"
    /\ Return(cur)
    /\ rtrRadio' = FALSE
    /\ UNCHANGED << envVars, polls, scanVars, sigVars, char_subscribed, subs_ready,
                    brokerWild, discSinceConn, lastEvents, pending, busy, scan_paused, bridge,
                    fw, link, ble_active >>

\* the link release of bridge.disconnect is over (an error is swallowed)
ConnectDiscDone ==
    /\ rPc = "c_disc"
    /\ bridge' = disconnect_end(bridge)
    /\ link' = "none"
    /\ ble_active' = TRUE
    /\ rPc' = "c_connecting"
    /\ rtrRadio' = TRUE
    /\ UNCHANGED << envVars, polls, scanVars, sigVars, char_subscribed, subs_ready,
                    brokerWild, discSinceConn, lastEvents, pending, busy, scan_paused, fw, cur,
                    errCause, nDone, e2e >>

\* tasks made ready (cancelled or new) have run before a radio connect completes
TasksSettled == \A u \in NotifyUuids : fw[u].st \in {"none", "done"}

ConnectLinkUp ==
    /\ rPc = "c_connecting"
    /\ TasksSettled
    /\ bridge' = [bridge EXCEPT !.conn = "Conn", !.chars = {}]
    /\ link' = "up"
    /\ rPc' = "c_discover"
    /\ rtrRadio' = TRUE
    /\ UNCHANGED << envVars, polls, scanVars, sigVars, char_subscribed, subs_ready,
                    brokerWild, discSinceConn, lastEvents, pending, busy, scan_paused, fw,
                    ble_active, cur, errCause, nDone, e2e >>

ConnectLinkFail ==
    /\ rPc = "c_connecting"
    /\ TasksSettled
    /\ handle_connect_except(cur, bridge, "link")
    /\ ble_active' = TRUE
    /\ rtrRadio' = CONTINUOUS_SCAN
    /\ UNCHANGED << envVars, polls, scanVars, sigVars, char_subscribed, subs_ready,
                    brokerWild, discSinceConn, lastEvents, pending, fw, link >>

\* handle_connect from the subscription flag test to the publish of the result
StartForwarding(b) ==
    /\ bridge' = set_on_disconnect(start_notify_all(b))
    /\ fw' = NewTasks(fw, b)
    /\ cbCount' = 0
    /\ lossCount' = 0
    /\ rPc' = "c_pub"

DiscoverOk ==
    /\ rPc = "c_discover"
    /\ link = "up"
    /\ \E P \in Profiles :
         LET b == [bridge EXCEPT !.chars = P] IN
         IF char_subscribed
         THEN StartForwarding(b)
         ELSE /\ bridge' = b
              /\ rPc' = "c_sub"
              /\ UNCHANGED << fw, sigVars >>
    /\ rtrRadio' = TRUE
    /\ UNCHANGED << envVars, polls, scanVars, char_subscribed, subs_ready, brokerWild,
                    discSinceConn, lastEvents, pending, busy, scan_paused, link, ble_active,
                    cur, errCause, nDone, e2e >>

\* asyncio.TimeoutError: connect() calls self.disconnect() and re-raises
DiscoverTimeout ==
    /\ rPc = "c_discover"
    /\ \E P \in PartialProfiles :
         bridge' = disconnect_begin([bridge EXCEPT !.chars = P])
    /\ fw' = CancelTasks(fw, bridge.notify_tasks)
    /\ rPc' = "c_tdisc"
    /\ rtrRadio' = TRUE
    /\ UNCHANGED << envVars, polls, scanVars, sigVars, char_subscribed, subs_ready,
                    brokerWild, discSinceConn, lastEvents, pending, busy, scan_paused, link,
                    ble_active, cur, errCause, nDone, e2e >>

DiscoverTimeoutDiscDone ==
    /\ rPc = "c_tdisc"
    /\ handle_connect_except(cur, disconnect_end(bridge), "timeout")
    /\ link' = "none"
    /\ ble_active' = IF CONTINUOUS_SCAN THEN TRUE ELSE disconnect_radio(ble_active)
    /\ rtrRadio' = TRUE
    /\ UNCHANGED << envVars, polls, scanVars, sigVars, char_subscribed, subs_ready,
                    brokerWild, discSinceConn, lastEvents, pending, fw >>

\* any other exception of the discovery is not caught by connect()
DiscoverError ==
    /\ rPc = "c_discover"
    /\ \E P \in PartialProfiles :
         handle_connect_except(cur, [bridge EXCEPT !.chars = P], "discovery")
    /\ rtrRadio' = TRUE
    /\ UNCHANGED << envVars, polls, scanVars, sigVars, char_subscribed, subs_ready,
                    brokerWild, discSinceConn, lastEvents, pending, fw, link, ble_active >>

SubscribeOk ==
    /\ rPc = "c_sub"
    /\ char_subscribed' = TRUE
    /\ brokerWild' = TRUE
    /\ nSub' = nSub + 1
    /\ StartForwarding(bridge)
    /\ rtrRadio' = FALSE
    /\ UNCHANGED << board, mqttUp, ocPc, nBus, limit, script, dataVars, polls, scanVars, subs_ready, discSinceConn,
                    lastEvents, pending, busy,
                    scan_paused, link, ble_active, cur, errCause, nDone, e2e >>

SubscribeFail ==
    /\ rPc = "c_sub"
    /\ handle_connect_except(cur, bridge, "subscribe")
    /\ rtrRadio' = CONTINUOUS_SCAN
    /\ UNCHANGED << envVars, polls, scanVars, sigVars, char_subscribed, subs_ready,
                    brokerWild, discSinceConn, lastEvents, pending, fw, link, ble_active >>

PublishConnectedOk ==
    /\ rPc = "c_pub"
    /\ discSinceConn' = 0
    /\ lastEvents' = Published(lastEvents, "connected")
    /\ busy' = FALSE
    /\ Return(cur)
    /\ rtrRadio' = FALSE
    /\ UNCHANGED << envVars, polls, scanVars, sigVars, char_subscribed, subs_ready,
                    brokerWild, pending, scan_paused, bridge, fw, link, ble_active >>

PublishConnectedFail ==
    /\ rPc = "c_pub"
    /\ handle_connect_except(cur, bridge, "publish")
    /\ rtrRadio' = CONTINUOUS_SCAN
    /\ UNCHANGED << envVars, polls, scanVars, sigVars, char_subscribed, subs_ready,
                    brokerWild, discSinceConn, lastEvents, pending, fw, link, ble_active >>

(***************************************************************************)
(* handle_disconnect and handle_unexpected_disconnect                      *)
(***************************************************************************)
\* variant of handle_disconnect that does not restart the streaming scan
handle_disconnect_no_restart(b) ==
    /\ char_subscribed' = FALSE
    /\ scan_paused' = FALSE
    /\ bridge' = b
    /\ ble_active' = IF CONTINUOUS_SCAN THEN TRUE ELSE disconnect_radio(ble_active)

\* handle_disconnect from the return of bridge.disconnect() to its publish
handle_disconnect(b) ==
    /\ char_subscribed' = FALSE
    /\ scan_paused' = FALSE
    /\ bridge' = IF CONTINUOUS_SCAN THEN start_streaming(b) ELSE b
    /\ ble_active' = IF CONTINUOUS_SCAN THEN TRUE ELSE disconnect_radio(ble_active)

\* variant of handle_unexpected_disconnect that keeps the subscription flag
handle_unexpected_disconnect_keeps_flag(b) ==
    /\ char_subscribed' = char_subscribed
    /\ scan_paused' = FALSE
    /\ bridge' = IF CONTINUOUS_SCAN THEN start_streaming(b) ELSE b
    /\ ble_active' = IF CONTINUOUS_SCAN THEN TRUE ELSE disconnect_radio(ble_active)

\* handle_unexpected_disconnect from the return of bridge.disconnect() to its publish
handle_unexpected_disconnect(b) ==
    /\ char_subscribed' = FALSE
    /\ scan_paused' = FALSE
    /\ bridge' = IF CONTINUOUS_SCAN THEN start_streaming(b) ELSE b
    /\ ble_active' = IF CONTINUOUS_SCAN THEN TRUE ELSE disconnect_radio(ble_active)

DispatchDisconnect ==
    /\ rPc = "idle"
    /\ pending # <<>>
    /\ LET c == pending[PopIndex(pending)] IN
       /\ c.t = "disconnect"
       /\ pending' = Remove(pending, PopIndex(pending))
       /\ cur' = c
    /\ fw' = CancelTasks(fw, bridge.notify_tasks)
    /\ IF bridge.conn # "None"
       THEN /\ bridge' = disconnect_begin(bridge)
            /\ rPc' = "d_disc"
            /\ UNCHANGED << char_subscribed, scan_paused, ble_active >>
       ELSE /\ handle_disconnect(disconnect_end(disconnect_begin(bridge)))
            /\ rPc' = "d_pub"
    /\ rtrRadio' = (bridge.conn # "None" \/ DEACTIVATE_BLE_AFTER_SCAN \/ CONTINUOUS_SCAN)
    /\ UNCHANGED << envVars, polls, scanVars, sigVars, subs_ready, brokerWild, discSinceConn,
                    lastEvents,
                    busy, link, errCause, nDone, e2e >>

DisconnectDiscDone ==
    /\ rPc = "d_disc"
    /\ handle_disconnect(disconnect_end(bridge))
    /\ rPc' = "d_pub"
    /\ link' = "none"
    /\ rtrRadio' = TRUE
    /\ UNCHANGED << envVars, polls, scanVars, sigVars, subs_ready, brokerWild, discSinceConn,
                    lastEvents,
                    pending, busy, fw, cur, errCause, nDone, e2e >>

DisconnectPublished ==
    /\ rPc = "d_pub"
    /\ \/ /\ discSinceConn' = discSinceConn + 1
          /\ lastEvents' = Published(lastEvents, "disconnected")
          /\ Return(cur)
       \/ /\ Raise(cur, "publish")
          /\ UNCHANGED << discSinceConn, lastEvents >>
    /\ rtrRadio' = FALSE
    /\ UNCHANGED << envVars, polls, scanVars, sigVars, char_subscribed, subs_ready,
                    brokerWild, pending, busy, scan_paused, bridge, fw, link,
                    ble_active >>

DispatchUnexpected ==
    /\ rPc = "idle"
    /\ pending # <<>>
    /\ LET c == pending[PopIndex(pending)] IN
       /\ c.t = BLE_DISCONNECTED
       /\ pending' = Remove(pending, PopIndex(pending))
       /\ cur' = c
    /\ fw' = CancelTasks(fw, bridge.notify_tasks)
    /\ IF bridge.conn # "None"
       THEN /\ bridge' = disconnect_begin(bridge)
            /\ rPc' = "u_disc"
            /\ UNCHANGED << char_subscribed, scan_paused, ble_active >>
       ELSE /\ handle_unexpected_disconnect(disconnect_end(disconnect_begin(bridge)))
            /\ rPc' = "u_pub"
    /\ rtrRadio' = (bridge.conn # "None" \/ DEACTIVATE_BLE_AFTER_SCAN \/ CONTINUOUS_SCAN)
    /\ UNCHANGED << envVars, polls, scanVars, sigVars, subs_ready, brokerWild, discSinceConn,
                    lastEvents,
                    busy, link, errCause, nDone, e2e >>

UnexpectedDiscDone ==
    /\ rPc = "u_disc"
    /\ handle_unexpected_disconnect(disconnect_end(bridge))
    /\ rPc' = "u_pub"
    /\ link' = "none"
    /\ rtrRadio' = TRUE
    /\ UNCHANGED << envVars, polls, scanVars, sigVars, subs_ready, brokerWild, discSinceConn,
                    lastEvents,
                    pending, busy, fw, cur, errCause, nDone, e2e >>

UnexpectedPublished ==
    /\ rPc = "u_pub"
    /\ \/ /\ discSinceConn' = discSinceConn + 1
          /\ lastEvents' = Published(lastEvents, "disconnected")
          /\ Return(cur)
       \/ /\ Raise(cur, "publish")
          /\ UNCHANGED << discSinceConn, lastEvents >>
    /\ rtrRadio' = FALSE
    /\ UNCHANGED << envVars, polls, scanVars, sigVars, char_subscribed, subs_ready,
                    brokerWild, pending, busy, scan_paused, bridge, fw, link,
                    ble_active >>

(***************************************************************************)
(* handle_write, handle_read, main's except clause                         *)
(***************************************************************************)
routerKeeps == << envVars, polls, scanVars, sigVars, char_subscribed, subs_ready, brokerWild,
                  discSinceConn, lastEvents, busy, scan_paused, bridge, fw, link, ble_active >>

DispatchWrite ==
    /\ rPc = "idle"
    /\ pending # <<>>
    /\ LET c == pending[PopIndex(pending)] IN
       /\ c.t = "write"
       /\ pending' = Remove(pending, PopIndex(pending))
       /\ IF write(bridge, WriteUuid) # "none"
          THEN /\ rPc' = "w_write"            \* await char.write(...)
               /\ cur' = c
               /\ rtrRadio' = TRUE
               /\ UNCHANGED << errCause, nDone, e2e >>
          ELSE /\ Return(c)                   \* unknown characteristic: no-op
               /\ rtrRadio' = FALSE
    /\ UNCHANGED routerKeeps

WriteDone ==
    /\ rPc = "w_write"
    /\ \/ Return(cur)
       \/ Raise(cur, "write")
    /\ rtrRadio' = FALSE
    /\ UNCHANGED << routerKeeps, pending >>

\* the topics under read/: "read" is read/<uuid>, READ_RESPONSE is the topic
\* handle_read publishes on, read/<uuid>/response
READ_RESPONSE == "read/response"
ReadTopics == {"read", READ_RESPONSE}

\* "/response" in suffix
HasResponse(t) == t = READ_RESPONSE

\* variant of the read dispatch without the test of the suffix
DispatchRead_unfiltered ==
    /\ rPc = "idle"
    /\ pending # <<>>
    /\ LET c == pending[PopIndex(pending)] IN
       /\ c.t \in ReadTopics
       /\ pending' = Remove(pending, PopIndex(pending))
       /\ cur' = c
       /\ IF chars_get(bridge, ReadUuid)
          THEN rPc' = "r_read" /\ rtrRadio' = TRUE
          ELSE rPc' = "r_pub" /\ rtrRadio' = FALSE
       /\ UNCHANGED << errCause, nDone, e2e >>
    /\ UNCHANGED routerKeeps

\* main: elif t.startswith(topic("read/")), up to the first suspension
DispatchRead ==
    /\ rPc = "idle"
    /\ pending # <<>>
    /\ LET c == pending[PopIndex(pending)] IN
       /\ c.t \in ReadTopics
       /\ pending' = Remove(pending, PopIndex(pending))
       /\ IF HasResponse(c.t)
          THEN /\ Return(c)                              \* nothing is awaited
               /\ rtrRadio' = FALSE
          ELSE /\ cur' = c
               /\ IF chars_get(bridge, ReadUuid)
                  THEN rPc' = "r_read" /\ rtrRadio' = TRUE      \* await char.read()
                  ELSE rPc' = "r_pub" /\ rtrRadio' = FALSE      \* b"" is published
               /\ UNCHANGED << errCause, nDone, e2e >>
    /\ UNCHANGED routerKeeps

ReadDone ==
    /\ rPc = "r_read"
    /\ \/ rPc' = "r_pub" /\ UNCHANGED << cur, errCause, nDone, e2e >>
       \/ Raise(cur, "read")
    /\ rtrRadio' = FALSE
    /\ UNCHANGED << routerKeeps, pending >>

ReadPublished ==
    /\ rPc = "r_pub"
    /\ \/ Return(cur)
       \/ Raise(cur, "publish")
    /\ rtrRadio' = FALSE
    /\ UNCHANGED << routerKeeps, pending >>

\* main: except Exception as e: await publish_error(str(e))
ErrorPublished ==
    /\ rPc = "err"
    /\ \E o \in {"ok", "fail"} :
         rPc' = IF publish_error(o) = "returned" THEN "idle" ELSE "dead"
    /\ rtrRadio' = FALSE
    /\ UNCHANGED << routerKeeps, pending, cur, errCause, nDone, e2e >>

Router ==
    \/ DispatchConnect \/ ConnectWaitPoll \/ ConnectWaitClear \/ ConnectWaitExpire
    \/ ConnectRejected
    \/ ConnectDiscDone \/ ConnectLinkUp \/ ConnectLinkFail
    \/ DiscoverOk \/ DiscoverTimeout \/ DiscoverTimeoutDiscDone \/ DiscoverError
    \/ SubscribeOk \/ SubscribeFail \/ PublishConnectedOk \/ PublishConnectedFail
    \/ DispatchDisconnect \/ DisconnectDiscDone \/ DisconnectPublished
    \/ DispatchUnexpected \/ UnexpectedDiscDone \/ UnexpectedPublished
    \/ DispatchWrite \/ WriteDone \/ DispatchRead \/ ReadDone \/ ReadPublished
    \/ ErrorPublished

(***************************************************************************)
(* Notify-forwarders (_notify_loop)                                        *)
(***************************************************************************)
fwKeeps == << envVars, scanVars, char_subscribed, subs_ready, brokerWild,
              discSinceConn, lastEvents, busy, scan_paused, link, ble_active, rPc, polls, cur,
              errCause, nDone, e2e >>

\* variant of mark_fired that forgets the signal was sent
mark_fired_not(b) == b

\* self._disconnect_fired = True
mark_fired(b) == [b EXCEPT !.disconnect_fired = TRUE]

\* code after the loop of _notify_loop: fire the callback once on link loss
NotifyLoopEnd(u, byLoss) ==
    /\ fw' = [fw EXCEPT ![u].st = "done"]
    /\ lossCount' = lossCount + (IF byLoss THEN 1 ELSE 0)
    /\ IF LinkLostSeen(bridge, link)
       THEN /\ bridge' = mark_fired(bridge)
            /\ IF bridge.on_disconnect
               THEN /\ pending' = Enqueue(pending, BLE_DISCONNECTED, "")
                    /\ cbCount' = cbCount + 1
               ELSE UNCHANGED << pending, cbCount >>
       ELSE UNCHANGED << bridge, pending, cbCount >>

LinkOpen == bridge.conn # "None" /\ link = "up"

\* first run of the task: the loop condition
FwStart(u) ==
    /\ rtrRadio' = FALSE
    /\ fw[u].st = "new"
    /\ ~fw[u].cancelled
    /\ IF LinkOpen
       THEN /\ fw' = [fw EXCEPT ![u].st = "waiting"]
            /\ UNCHANGED << bridge, pending, sigVars >>
       ELSE NotifyLoopEnd(u, bridge.conn # "None")
    /\ UNCHANGED fwKeeps

\* a task cancelled before its first run never enters the function body
FwCancelledNew(u) ==
    /\ rtrRadio' = FALSE
    /\ fw[u].st = "new"
    /\ fw[u].cancelled
    /\ fw' = [fw EXCEPT ![u].st = "done"]
    /\ UNCHANGED << fwKeeps, bridge, pending, sigVars >>

\* char.notified() returns data: await publish_fn(...)
FwNotified(u) ==
    /\ rtrRadio' = FALSE
    /\ fw[u].st = "waiting"
    /\ ~fw[u].cancelled
    /\ link = "up"
    /\ fw' = [fw EXCEPT ![u].st = "publishing"]
    /\ UNCHANGED << fwKeeps, bridge, pending, sigVars >>

\* char.notified() raises after timeout_ms without a notification
FwTimeout(u) ==
    /\ rtrRadio' = FALSE
    /\ fw[u].st = "waiting"
    /\ ~fw[u].cancelled
    /\ link = "up"
    /\ NotifyLoopEnd(u, FALSE)
    /\ UNCHANGED fwKeeps

\* char.notified() raises because the link is gone
FwLinkLost(u) ==
    /\ rtrRadio' = FALSE
    /\ fw[u].st = "waiting"
    /\ ~fw[u].cancelled
    /\ link # "up"
    /\ NotifyLoopEnd(u, bridge.conn # "None")
    /\ UNCHANGED fwKeeps

\* publish_fn returned or raised
FwPublished(u) ==
    /\ rtrRadio' = FALSE
    /\ fw[u].st = "publishing"
    /\ ~fw[u].cancelled
    /\ \/ /\ LinkOpen
          /\ fw' = [fw EXCEPT ![u].st = "waiting"]
          /\ UNCHANGED << bridge, pending, sigVars >>
       \/ /\ ~LinkOpen
          /\ NotifyLoopEnd(u, bridge.conn # "None")
       \/ NotifyLoopEnd(u, FALSE)
    /\ UNCHANGED fwKeeps

\* CancelledError is delivered at the suspension point and swallowed
FwCancelled(u) ==
    /\ rtrRadio' = FALSE
    /\ fw[u].st \in {"waiting", "publishing"}
    /\ fw[u].cancelled
    /\ NotifyLoopEnd(u, FALSE)
    /\ UNCHANGED fwKeeps

Forwarder ==
    \E u \in NotifyUuids :
        \/ FwStart(u) \/ FwCancelledNew(u) \/ FwNotified(u) \/ FwTimeout(u)
        \/ FwLinkLost(u) \/ FwPublished(u) \/ FwCancelled(u)

(***************************************************************************)
(* The radio link                                                          *)
(***************************************************************************)
linkKeeps == << envVars, scanVars, sigVars, char_subscribed, subs_ready, brokerWild,
                discSinceConn,
                    lastEvents, busy, scan_paused, bridge, fw, ble_active, rPc, polls, cur,
                errCause, nDone, e2e, pending >>

\* the peripheral drops the link
PeerDrop ==
    /\ rtrRadio' = FALSE
    /\ bridge.conn # "None"
    /\ link = "up"
    /\ link' = "peer_lost"
    /\ UNCHANGED linkKeeps

\* the link release requested by BleBridge.disconnect takes effect
LocalClose ==
    /\ rtrRadio' = FALSE
    /\ rPc \in {"c_disc", "c_tdisc", "d_disc", "u_disc"}
    /\ link = "up"
    /\ link' = "closed"
    /\ UNCHANGED linkKeeps

(***************************************************************************)
(* The scan loops                                                          *)
(***************************************************************************)
MqttReady == mqttUp /\ subs_ready

scanKeeps == << envVars, sigVars, char_subscribed, brokerWild, discSinceConn, lastEvents,
                scan_paused, fw, link, rPc, polls, cur, errCause, nDone, e2e, pending >>

\* _streaming_scan_loop: the first start_streaming once the bus is ready
StreamFirstStart ==
    /\ rtrRadio' = FALSE
    /\ UNCHANGED scanErr
    /\ sPc = "s_init"
    /\ MqttReady
    /\ bridge' = start_streaming(bridge)
    /\ ble_active' = TRUE
    /\ sPc' = "s_top"
    /\ UNCHANGED << scanKeeps, busy, subs_ready >>

StreamSleep ==
    /\ rtrRadio' = FALSE
    /\ UNCHANGED scanErr
    /\ sPc = "s_top"
    /\ MqttReady
    /\ ~scan_paused
    /\ sPc' = "s_sleep"
    /\ UNCHANGED << scanKeeps, busy, subs_ready, bridge, ble_active >>

StreamWakePaused ==
    /\ rtrRadio' = FALSE
    /\ UNCHANGED scanErr
    /\ sPc = "s_sleep"
    /\ scan_paused
    /\ sPc' = "s_top"
    /\ UNCHANGED << scanKeeps, busy, subs_ready, bridge, ble_active >>

\* variant of the drain step that does not read paused after the sleep
StreamDrain_ignores_pause ==
    /\ rtrRadio' = FALSE
    /\ UNCHANGED scanErr
    /\ sPc = "s_sleep"
    /\ sPc' = "s_pub"
    /\ UNCHANGED << scanKeeps, busy, subs_ready, bridge, ble_active >>

\* drain_results, the detection hook, then await client.publish
StreamDrain ==
    /\ rtrRadio' = FALSE
    /\ UNCHANGED scanErr
    /\ sPc = "s_sleep"
    /\ ~scan_paused
    /\ sPc' = "s_pub"
    /\ UNCHANGED << scanKeeps, busy, subs_ready, bridge, ble_active >>

StreamPublished ==
    /\ rtrRadio' = FALSE
    /\ UNCHANGED scanErr
    /\ sPc = "s_pub"
    /\ \/ sPc' = "s_top"
       \/ sPc' = "s_err"
    /\ UNCHANGED << scanKeeps, busy, subs_ready, bridge, ble_active >>

StreamErrPublished ==
    /\ rtrRadio' = FALSE
    /\ UNCHANGED scanErr
    /\ sPc = "s_err"
    /\ \E o \in {"ok", "fail"} : publish_error(o) = "returned"
    /\ sPc' = "s_top"
    /\ UNCHANGED << scanKeeps, busy, subs_ready, bridge, ble_active >>

\* _batch_scan_loop: all skip conditions passed, the scan is started
BatchStart ==
    /\ rtrRadio' = FALSE
    /\ scanErr' = FALSE
    /\ sPc = "b_top"
    /\ MqttReady
    /\ ~(scan_paused \/ busy)
    /\ busy' = TRUE
    /\ subs_ready' = IF DEACTIVATE_BLE_AFTER_SCAN THEN FALSE ELSE subs_ready
    /\ ble_active' = TRUE
    /\ sPc' = "b_scanning"
    /\ UNCHANGED << scanKeeps, bridge >>

\* bridge.scan() returned; first pass of the reconnection wait
BatchScanDone ==
    /\ rtrRadio' = FALSE
    /\ UNCHANGED scanErr
    /\ sPc = "b_scanning"
    /\ ble_active' = disconnect_radio(ble_active)
    /\ IF DEACTIVATE_BLE_AFTER_SCAN
       THEN IF mqttUp
            THEN subs_ready' = TRUE /\ sPc' = "b_pub"
            ELSE UNCHANGED subs_ready /\ sPc' = "b_postwait"
       ELSE UNCHANGED subs_ready /\ sPc' = "b_pub"
    /\ UNCHANGED << scanKeeps, busy, bridge >>

\* bridge.scan() raised: except clause awaits publish_error
BatchScanRaise ==
    /\ rtrRadio' = FALSE
    /\ UNCHANGED scanErr
    /\ sPc = "b_scanning"
    /\ ble_active' = disconnect_radio(ble_active)
    /\ sPc' = "b_err"
    /\ UNCHANGED << scanKeeps, busy, subs_ready, bridge >>

\* a later pass of the reconnection wait finds the bus connected
BatchPostWaitConnected ==
    /\ rtrRadio' = FALSE
    /\ UNCHANGED scanErr
    /\ sPc = "b_postwait"
    /\ mqttUp
    /\ subs_ready' = TRUE
    /\ sPc' = "b_pub"
    /\ UNCHANGED << scanKeeps, busy, bridge, ble_active >>

\* every pass of the reconnection wait found the bus down
BatchPostWaitExpire ==
    /\ rtrRadio' = FALSE
    /\ UNCHANGED scanErr
    /\ sPc = "b_postwait"
    /\ ~mqttUp
    /\ sPc' = "b_pub"
    /\ UNCHANGED << scanKeeps, busy, subs_ready, bridge, ble_active >>

\* variant of the finally clause that keeps busy
BatchFinally_keeps_busy ==
    /\ subs_ready' = IF mqttUp /\ ~subs_ready THEN TRUE ELSE subs_ready
    /\ busy' = busy
    /\ sPc' = "b_top"

\* finally clause of the scan cycle
BatchFinally ==
    /\ subs_ready' = IF mqttUp /\ ~subs_ready THEN TRUE ELSE subs_ready
    /\ busy' = FALSE
    /\ sPc' = "b_top"

BatchPublished ==
    /\ rtrRadio' = FALSE
    /\ sPc = "b_pub"
    /\ \/ BatchFinally /\ scanErr' = FALSE
       \/ sPc' = "b_err" /\ UNCHANGED << subs_ready, busy, scanErr >>
    /\ UNCHANGED << scanKeeps, bridge, ble_active >>

BatchErrPublished ==
    /\ rtrRadio' = FALSE
    /\ sPc = "b_err"
    /\ \E o \in {"ok", "fail"} : publish_error(o) = "returned"
    /\ BatchFinally
    /\ scanErr' = TRUE
    /\ UNCHANGED << scanKeeps, bridge, ble_active >>

Scanner ==
    \/ StreamFirstStart \/ StreamSleep \/ StreamWakePaused \/ StreamDrain
    \/ StreamPublished \/ StreamErrPublished
    \/ BatchStart \/ BatchScanDone \/ BatchScanRaise \/ BatchPublished
    \/ BatchErrPublished

\* the passes of the reconnection wait that follow a drop of the network link
ScannerNet == BatchPostWaitConnected \/ BatchPostWaitExpire

(***************************************************************************)
(* The message bus                                                         *)
(***************************************************************************)
busKeeps == << board, limit, nSub, dataVars, sigVars, char_subscribed, discSinceConn,
                    lastEvents, busy,
               scan_paused, bridge, fw, link, ble_active, rPc, polls, cur, errCause,
               nDone, e2e, scanVars >>

Messages ==
    { [t |-> "connect", msg |-> "ok"], [t |-> "connect", msg |-> "bad"],
      [t |-> "disconnect", msg |-> ""], [t |-> "write", msg |-> ""],
      [t |-> "read", msg |-> ""] }

\* on_message for a command topic; the broker delivers a write or read only
\* once the wildcard topics are subscribed
on_message ==
    /\ rtrRadio' = FALSE
    /\ mqttUp
    /\ ocPc # "start"
    /\ \E m \in (IF script # << >> THEN {Head(script)}
                 ELSE IF nBus < limit THEN Messages ELSE {}) :
         /\ m.t \in {"write"} \cup ReadTopics => brokerWild
         /\ pending' = Enqueue(pending, m.t, m.msg)
    /\ script' = IF script # << >> THEN Tail(script) ELSE script
    /\ nBus' = nBus + 1
    /\ UNCHANGED << busKeeps, mqttUp, ocPc, subs_ready, brokerWild >>

\* the network link drops while the shared radio is scanning
MqttDrop ==
    /\ rtrRadio' = FALSE
    /\ mqttUp
    /\ sPc = "b_scanning"
    /\ mqttUp' = FALSE
    /\ UNCHANGED << busKeeps, ocPc, nBus, script, subs_ready, brokerWild, pending >>

\* mqtt_as reconnects and starts the connect_coro task
MqttReconnect ==
    /\ rtrRadio' = FALSE
    /\ ~mqttUp
    /\ mqttUp' = TRUE
    /\ ocPc' = "start"
    /\ UNCHANGED << busKeeps, nBus, script, subs_ready, brokerWild, pending >>

\* on_connect: _subs_ready = False, then the subscribes
on_connect_begin ==
    /\ rtrRadio' = FALSE
    /\ ocPc = "start"
    /\ mqttUp
    /\ subs_ready' = FALSE
    /\ ocPc' = "subscribing"
    /\ UNCHANGED << busKeeps, mqttUp, nBus, script, brokerWild, pending >>

\* on_connect: the subscribes are done, _subs_ready = True
on_connect_done ==
    /\ rtrRadio' = FALSE
    /\ ocPc = "subscribing"
    /\ mqttUp
    /\ subs_ready' = TRUE
    /\ brokerWild' = (brokerWild \/ char_subscribed)
    /\ ocPc' = "idle"
    /\ UNCHANGED << busKeeps, mqttUp, nBus, script, pending >>

Bus == on_message \/ on_connect_begin \/ on_connect_done

BusNet == MqttDrop \/ MqttReconnect

(***************************************************************************)
(* Advertisement reports: parsing, merging, filtering (ble_bridge.py)      *)
(*                                                                         *)
(* A raw report is the tuple the event callback appends,                   *)
(* (bytes(addr), addr_type, rssi, bytes(adv_data)), with the serial number *)
(* n of the delivery added for bookkeeping.  Bytes are numbers 0..255, a   *)
(* bytes object is a sequence of them.                                     *)
(***************************************************************************)
Min(a, b) == IF a < b THEN a ELSE b

\* python s[a:b] for 0 <= a, clipped at the end of s
Slice(s, a, b) == SubSeq(s, a + 1, Min(b, Len(s)))

\* "%02X" % b, as the pair of hex digits
Hex2(b) == << b \div 16, b % 16 >>

\* bytes.hex(): two hex digits per byte
RECURSIVE Hex(_)
Hex(bs) == IF bs = << >> THEN << >> ELSE Hex2(Head(bs)) \o Hex(Tail(bs))

\* ":".join("%02X" % b for b in addr_bytes): one digit pair per byte
MacOf(addr_bytes) == [i \in 1..Len(addr_bytes) |-> Hex2(addr_bytes[i])]

\* bytes.decode("utf-8") succeeds; the reports of the model carry ASCII only,
\* for which the decoded string has the bytes as its characters
Utf8Ok(bs) == \A i \in 1..Len(bs) : bs[i] < 128

\* the 16-bit service UUIDs of a payload: "%04x" % (p[j] | p[j+1] << 8)
RECURSIVE Uuids16(_)
Uuids16(p) ==
    IF Len(p) < 2 THEN << >>
    ELSE << Hex2(p[2]) \o Hex2(p[1]) >> \o Uuids16(Tail(Tail(p)))

ParseStart ==
    [name |-> << >>, services |-> << >>, has_mfr |-> FALSE, mfr_id |-> 0,
     mfr_data |-> << >>, raised |-> FALSE]

\* the while loop of _parse_raw_entry from offset i on; raised = the loop
\* indexed past the end of a payload (IndexError)
RECURSIVE ParseLoop(_, _, _)
ParseLoop(adv, i, acc) ==
    IF i >= Len(adv) THEN acc
    ELSE LET length == adv[i + 1] IN
      IF length = 0 THEN acc
      ELSE IF i + 1 >= Len(adv) THEN acc
      ELSE LET ad_type == adv[i + 2]
               ad_payload == Slice(adv, i + 2, i + 1 + length)
           IN IF ad_type \in {9, 8}
              THEN ParseLoop(adv, i + length + 1,
                             [acc EXCEPT !.name = IF Utf8Ok(ad_payload) THEN ad_payload ELSE @])
              ELSE IF ad_type \in {3, 2}
              THEN ParseLoop(adv, i + length + 1,
                             [acc EXCEPT !.services = @ \o Uuids16(ad_payload)])
              ELSE IF ad_type = 255 /\ length >= 3
              THEN IF Len(ad_payload) < 2
                   THEN [acc EXCEPT !.raised = TRUE]
                   ELSE ParseLoop(adv, i + length + 1,
                                  [acc EXCEPT !.has_mfr = TRUE,
                                              !.mfr_id = ad_payload[1] + 256 * ad_payload[2],
                                              !.mfr_data = Hex(Slice(ad_payload, 2, Len(ad_payload)))])
              ELSE ParseLoop(adv, i + length + 1, acc)

\* _parse_raw_entry raises instead of returning
ParseRaises(r) == ParseLoop(r.adv, 0, ParseStart).raised

\* the dict _parse_raw_entry returns; has_mfr = the manufacturer keys are present
_parse_raw_entry(r) ==
    LET p == ParseLoop(r.adv, 0, ParseStart)
    IN [address |-> MacOf(r.addr), name |-> p.name, rssi |-> r.rssi,
        services |-> p.services, addr_type |-> r.addr_type,
        has_mfr |-> p.has_mfr, manufacturer_id |-> p.mfr_id,
        manufacturer_data |-> p.mfr_data]

\* entry.get("manufacturer_data") is truthy
MfrData(e) == e.has_mfr /\ e.manufacturer_data # << >>

\* variant of _merge_entry in which a later name replaces the stored one
_merge_entry_last_name(table, entry) ==
    LET mac == entry.address IN
    IF mac \in DOMAIN table
    THEN [table EXCEPT ![mac] =
            [@ EXCEPT !.rssi = IF entry.rssi > @ THEN entry.rssi ELSE @,
                      !.name = IF entry.name # << >> THEN entry.name ELSE @]]
    ELSE table @@ (mac :> entry)

\* _merge_entry(seen, entry), as the table it leaves
_merge_entry(table, entry) ==
    LET mac == entry.address IN
    IF mac \in DOMAIN table
    THEN LET old == table[mac]
             takeMfr == MfrData(entry) /\ ~MfrData(old)
         IN [table EXCEPT ![mac] =
               [old EXCEPT !.rssi = IF entry.rssi > old.rssi THEN entry.rssi ELSE @,
                           !.name = IF entry.name # << >> /\ old.name = << >>
                                    THEN entry.name ELSE @,
                           !.has_mfr = IF takeMfr THEN TRUE ELSE @,
                           !.manufacturer_id = IF takeMfr THEN entry.manufacturer_id ELSE @,
                           !.manufacturer_data = IF takeMfr THEN entry.manufacturer_data ELSE @]]
    ELSE table @@ (mac :> entry)

\* variant of Results that returns every entry of the table
Results_unfiltered(table) == {table[m] : m \in DOMAIN table}

\* [v for v in seen.values() if v["name"] or v.get("manufacturer_data")],
\* as the set of its elements
Results(table) == {table[m] : m \in {k \in DOMAIN table : table[k].name # << >> \/ MfrData(table[k])}}

EmptyTable == << >>

\* the advertisements of the model
AdvNone == << >>
AdvNameA == << 2, 9, 65 >>
AdvShortB == << 2, 8, 66 >>
AdvMfr == << 4, 255, 1, 0, 170 >>
AdvMfrIdOnly == << 3, 255, 2, 0 >>
AdvNameMfr == << 2, 9, 65, 4, 255, 2, 0, 187 >>
AdvCutMfr == << 5, 255, 1 >>

Addr1 == << 170, 187, 204, 0, 0, 1 >>
Addr2 == << 170, 187, 204, 0, 0, 2 >>
Macs == {MacOf(Addr1), MacOf(Addr2)}

Report(k, a, rs, ad) == [n |-> k, addr |-> a, addr_type |-> 0, rssi |-> rs, adv |-> ad]

(***************************************************************************)
(* The raw-report buffer and the dedup table                               *)
(*                                                                         *)
(* The radio delivers reports to the event callback between any two steps  *)
(* of the Python code; the swap at the head of drain_results is straight-  *)
(* line code and runs as one step.  The command and scan-loop actions      *)
(* above deliver no report and leave the buffers as they are.              *)
(***************************************************************************)
ctlKeeps == << board, char_subscribed, busy, scan_paused, subs_ready, pending, fw,
               link, ble_active, mqttUp, brokerWild, ocPc, sPc, scanErr, rPc, polls,
               cur, errCause, nDone, nBus, limit, script, cbCount, lossCount, nSub,
               discSinceConn, lastEvents, rtrRadio, e2e, beepVars, uuidVars, calls >>

\* the reports the radio delivers while the buffer is watched
StreamReports(k) ==
    {Report(k, Addr1, -60, ad) : ad \in {AdvNameA, AdvCutMfr}}
        \cup {Report(k, Addr2, -60, AdvNameA)}

Serials(s) == {s[i].n : i \in 1..Len(s)}

\* variant of _irq that compares the length with <= instead of <
_irq_off_by_one(r) ==
    /\ nRep' = nRep + 1
    /\ cycRep' = cycRep + 1
    /\ IF Len(raw_results) <= MAX_SCAN_ENTRIES
       THEN /\ raw_results' = Append(raw_results, r)
            /\ accepted' = accepted \cup {r}
            /\ UNCHANGED << cap_logged, cycNote >>
       ELSE IF ~cap_logged
       THEN /\ cap_logged' = TRUE
            /\ cycNote' = cycNote + 1
            /\ UNCHANGED << raw_results, accepted >>
       ELSE UNCHANGED << raw_results, accepted, cap_logged, cycNote >>

\* _irq(5, data): the callback installed by scan() and by start_streaming
_irq(r) ==
    /\ nRep' = nRep + 1
    /\ cycRep' = cycRep + 1
    /\ IF Len(raw_results) < MAX_SCAN_ENTRIES
       THEN /\ raw_results' = Append(raw_results, r)
            /\ accepted' = accepted \cup {r}
            /\ UNCHANGED << cap_logged, cycNote >>
       ELSE IF ~cap_logged
       THEN /\ cap_logged' = TRUE
            /\ cycNote' = cycNote + 1
            /\ UNCHANGED << raw_results, accepted >>
       ELSE UNCHANGED << raw_results, accepted, cap_logged, cycNote >>

\* BleBridge.start_streaming
DataStartStreaming ==
    /\ CONTINUOUS_SCAN
    /\ dPc = "idle"
    /\ bridge' = start_streaming(bridge)
    /\ raw_results' = << >>
    /\ seen' = EmptyTable
    /\ seen_cycle' = 0
    /\ cap_logged' = FALSE
    /\ discarded' = discarded \cup Serials(raw_results)
    /\ cycRep' = 0
    /\ cycNote' = 0
    /\ UNCHANGED << ctlKeeps, dPc, raw, out, nRep, accepted, mcount, shown, loopVars >>

\* BleBridge.stop_streaming
DataStopStreaming ==
    /\ CONTINUOUS_SCAN
    /\ dPc = "idle"
    /\ bridge.streaming
    /\ bridge' = stop_streaming(bridge)
    /\ raw_results' = << >>
    /\ discarded' = discarded \cup Serials(raw_results)
    /\ cycRep' = 0
    /\ cycNote' = 0
    /\ UNCHANGED << ctlKeeps, seen, seen_cycle, cap_logged, dPc, raw, out, nRep,
                    accepted, mcount, shown, loopVars >>

\* a scan result event while the indefinite scan runs
StreamIrq ==
    /\ CONTINUOUS_SCAN
    /\ bridge.streaming
    /\ nRep < MaxDelivered
    /\ \E r \in StreamReports(nRep + 1) : _irq(r)
    /\ UNCHANGED << ctlKeeps, bridge, seen, seen_cycle, dPc, raw, out, mcount,
                    discarded, shown, loopVars >>

\* drain_results: raw = self._raw_results; self._raw_results = [];
\* self._cap_logged = False
DrainSwap ==
    /\ CONTINUOUS_SCAN
    /\ dPc = "idle"
    /\ raw' = raw_results
    /\ raw_results' = << >>
    /\ cap_logged' = FALSE
    /\ dPc' = "merging"
    /\ cycRep' = 0
    /\ cycNote' = 0
    /\ UNCHANGED << ctlKeeps, bridge, seen, seen_cycle, out, nRep, accepted, mcount,
                    discarded, shown, loopVars >>

\* one iteration of the for loop of drain_results
DrainMerge ==
    /\ CONTINUOUS_SCAN
    /\ dPc = "merging"
    /\ raw # << >>
    /\ ~ParseRaises(Head(raw))
    /\ seen' = _merge_entry(seen, _parse_raw_entry(Head(raw)))
    /\ raw' = Tail(raw)
    /\ mcount' = [mcount EXCEPT ![Head(raw).n] = @ + 1]
    /\ shown' = [shown EXCEPT ![MacOf(Head(raw).addr)] = 0]
    /\ UNCHANGED << ctlKeeps, bridge, raw_results, seen_cycle, cap_logged, dPc, out,
                    nRep, accepted, discarded, cycRep, cycNote, loopVars >>

\* _parse_raw_entry raises: the exception leaves drain_results, its local
\* list is dropped
DrainRaise ==
    /\ CONTINUOUS_SCAN
    /\ dPc = "merging"
    /\ raw # << >>
    /\ ParseRaises(Head(raw))
    /\ raw' = << >>
    /\ dPc' = "idle"
    /\ UNCHANGED << ctlKeeps, bridge, raw_results, seen, seen_cycle, cap_logged, out,
                    ghostVars, loopVars >>

\* variant of DrainReturn that never clears the table
DrainReturn_no_reset ==
    /\ CONTINUOUS_SCAN
    /\ dPc = "merging"
    /\ raw = << >>
    /\ out' = Results(seen)
    /\ seen_cycle' = (seen_cycle + 1) % SEEN_RESET_CYCLES
    /\ shown' = [m \in Macs |->
                   IF \E e \in Results(seen) : e.address = m
                   THEN Min(shown[m] + 1, SEEN_RESET_CYCLES + 1) ELSE shown[m]]
    /\ dPc' = "idle"
    /\ UNCHANGED << ctlKeeps, bridge, raw_results, seen, cap_logged, raw, nRep, accepted,
                    mcount, discarded, cycRep, cycNote, loopVars >>

\* drain_results after its loop: the cycle counter, the reset, the returned list
DrainReturn ==
    /\ CONTINUOUS_SCAN
    /\ dPc = "merging"
    /\ raw = << >>
    /\ out' = Results(seen)
    /\ IF seen_cycle + 1 >= SEEN_RESET_CYCLES
       THEN seen_cycle' = 0 /\ seen' = EmptyTable
       ELSE seen_cycle' = seen_cycle + 1 /\ seen' = seen
    /\ shown' = [m \in Macs |->
                   IF \E e \in Results(seen) : e.address = m
                   THEN Min(shown[m] + 1, SEEN_RESET_CYCLES + 1) ELSE shown[m]]
    /\ dPc' = "idle"
    /\ UNCHANGED << ctlKeeps, bridge, raw_results, cap_logged, raw, nRep, accepted,
                    mcount, discarded, cycRep, cycNote, loopVars >>

StreamData ==
    \/ DataStartStreaming
    \/ DataStopStreaming
    \/ StreamIrq
    \/ DrainSwap
    \/ DrainMerge
    \/ DrainRaise
    \/ DrainReturn

\* scan(): seen = {}, raw_results = [], _cap_logged = False, gap_scan(duration)
ScanStart ==
    /\ ~CONTINUOUS_SCAN
    /\ dPc = "idle"
    /\ seen' = EmptyTable
    /\ raw_results' = << >>
    /\ cap_logged' = FALSE
    /\ dPc' = "scanning"
    /\ cycRep' = 0
    /\ cycNote' = 0
    /\ UNCHANGED << ctlKeeps, bridge, seen_cycle, raw, out, nRep, accepted, mcount,
                    discarded, shown, loopVars >>

\* a scan result event during the sleep of scan()
ScanIrq ==
    /\ ~CONTINUOUS_SCAN
    /\ dPc = "scanning"
    /\ nRep < MaxDelivered
    /\ \E r \in StreamReports(nRep + 1) : _irq(r)
    /\ UNCHANGED << ctlKeeps, bridge, seen, seen_cycle, dPc, raw, out, mcount,
                    discarded, shown, loopVars >>

\* scan(): the sleep is over, gap_scan(None), the for loop starts
ScanStop ==
    /\ ~CONTINUOUS_SCAN
    /\ dPc = "scanning"
    /\ raw' = raw_results
    /\ dPc' = "merging"
    /\ UNCHANGED << ctlKeeps, bridge, raw_results, seen, seen_cycle, cap_logged, out,
                    ghostVars, loopVars >>

\* one iteration of the for loop of scan()
ScanMerge ==
    /\ ~CONTINUOUS_SCAN
    /\ dPc = "merging"
    /\ raw # << >>
    /\ ~ParseRaises(Head(raw))
    /\ seen' = _merge_entry(seen, _parse_raw_entry(Head(raw)))
    /\ raw' = Tail(raw)
    /\ mcount' = [mcount EXCEPT ![Head(raw).n] = @ + 1]
    /\ UNCHANGED << ctlKeeps, bridge, raw_results, seen_cycle, cap_logged, dPc, out,
                    nRep, accepted, discarded, cycRep, cycNote, shown, loopVars >>

\* _parse_raw_entry raises: scan() ends through its finally clause
ScanRaise ==
    /\ ~CONTINUOUS_SCAN
    /\ dPc = "merging"
    /\ raw # << >>
    /\ ParseRaises(Head(raw))
    /\ raw' = << >>
    /\ raw_results' = << >>
    /\ seen' = EmptyTable
    /\ dPc' = "idle"
    /\ cycRep' = 0
    /\ cycNote' = 0
    /\ UNCHANGED << ctlKeeps, bridge, seen_cycle, cap_logged, out, nRep, accepted,
                    mcount, discarded, shown, loopVars >>

\* scan(): results = [...]; seen.clear(); raw_results.clear(); return results
ScanReturn ==
    /\ ~CONTINUOUS_SCAN
    /\ dPc = "merging"
    /\ raw = << >>
    /\ out' = Results(seen)
    /\ seen' = EmptyTable
    /\ raw_results' = << >>
    /\ dPc' = "idle"
    /\ cycRep' = 0
    /\ cycNote' = 0
    /\ UNCHANGED << ctlKeeps, bridge, seen_cycle, cap_logged, raw, nRep, accepted,
                    mcount, discarded, shown, loopVars >>

BatchData == ScanStart \/ ScanIrq \/ ScanStop \/ ScanMerge \/ ScanRaise \/ ScanReturn

(***************************************************************************)
(* The processing loop of scan() on a given buffer                         *)
(***************************************************************************)
LoopReports ==
    {Report(0, Addr1, rs, ad) :
        rs \in {-70, -55},
        ad \in {AdvNone, AdvNameA, AdvShortB, AdvMfr, AdvMfrIdOnly, AdvNameMfr, AdvCutMfr}}
      \cup {Report(0, Addr2, rs, ad) : rs \in {-70, -55}, ad \in {AdvNone, AdvNameA, AdvMfr}}

RECURSIVE SeqsUpTo(_, _)
SeqsUpTo(S, k) ==
    IF k = 0 THEN { << >> }
    ELSE LET shorter == SeqsUpTo(S, k - 1)
         IN shorter \cup {Append(s, x) : s \in {t \in shorter : Len(t) = k - 1}, x \in S}

\* for ... in raw_results: entry = _parse_raw_entry(...); _merge_entry(seen, entry)
LoopMerge ==
    /\ m_st = "loop"
    /\ m_i < Len(m_raw)
    /\ ~ParseRaises(m_raw[m_i + 1])
    /\ m_seen' = _merge_entry(m_seen, _parse_raw_entry(m_raw[m_i + 1]))
    /\ m_i' = m_i + 1
    /\ UNCHANGED << ctlKeeps, bridge, bufVars, ghostVars, m_raw, m_results, m_st >>

\* _parse_raw_entry raises inside the loop
LoopRaise ==
    /\ m_st = "loop"
    /\ m_i < Len(m_raw)
    /\ ParseRaises(m_raw[m_i + 1])
    /\ m_st' = "raised"
    /\ m_seen' = EmptyTable
    /\ UNCHANGED << ctlKeeps, bridge, bufVars, ghostVars, m_raw, m_i, m_results >>

\* results = [v for v in seen.values() if ...]; seen.clear(); return results
LoopReturn ==
    /\ m_st = "loop"
    /\ m_i = Len(m_raw)
    /\ m_results' = Results(m_seen)
    /\ m_seen' = EmptyTable
    /\ m_st' = "returned"
    /\ UNCHANGED << ctlKeeps, bridge, bufVars, ghostVars, m_raw, m_i >>

Loop == LoopMerge \/ LoopRaise \/ LoopReturn

(***************************************************************************)
(* Scale detection (_check_scale_beep) under the millisecond tick counter  *)
(***************************************************************************)
\* MicroPython: ticks_ms() wraps at TICKS_PERIOD = 2**30
TICKS_PERIOD == 2^30

\* time.ticks_diff(a, b): the difference folded into -2**29 .. 2**29 - 1
ticks_diff(a, b) ==
    ((a - b + TICKS_PERIOD \div 2) % TICKS_PERIOD) - TICKS_PERIOD \div 2

\* the time that may pass between two steps, in milliseconds
Delays == {1, 2000, DEBOUNCE_MS - 1, DEBOUNCE_MS, TICKS_PERIOD \div 2,
           TICKS_PERIOD - DEBOUNCE_MS}

\* the lists scan() / drain_results may return, as address sequences
ResultLists ==
    { << >>, << MacOf(Addr1) >>, << MacOf(Addr2) >>,
      << MacOf(Addr1), MacOf(Addr2) >>, << MacOf(Addr2), MacOf(Addr1) >> }

\* alerts fired by the for loop of _check_scale_beep: it breaks at the first match
Alerts(results, macs) ==
    IF \E i \in 1..Len(results) : results[i] \in macs THEN 1 ELSE 0

\* variant of Due without the debounce comparison
Due_no_window == scale_macs # {}

\* the if of _check_scale_beep
Due == scale_macs # {} /\ ticks_diff(ticks, last_beep_time) > DEBOUNCE_MS

BeepKeeps == << board, char_subscribed, busy, scan_paused, subs_ready, pending, bridge,
                fw, link, ble_active, mqttUp, brokerWild, ocPc, sPc, scanErr, rPc,
                polls, cur, errCause, nDone, nBus, limit, script, cbCount, lossCount,
                nSub, discSinceConn, lastEvents, rtrRadio, e2e, bufVars, ghostVars, loopVars,
                uuidVars, calls >>

\* what the UUID steps leave alone
ctlNoUuid == << board, char_subscribed, busy, scan_paused, subs_ready, pending, bridge,
                fw, link, ble_active, mqttUp, brokerWild, ocPc, sPc, scanErr, rPc,
                polls, cur, errCause, nDone, nBus, limit, script, cbCount, lossCount,
                nSub, discSinceConn, lastEvents, rtrRadio, e2e, bufVars, ghostVars, loopVars,
                beepVars, calls >>

\* time passes
Tick ==
    /\ nTicks < MaxTicks
    /\ \E d \in Delays :
         /\ ticks' = (ticks + d) % TICKS_PERIOD
         /\ sinceAlert' = Min(sinceAlert + d, DEBOUNCE_MS + 1)
    /\ nTicks' = nTicks + 1
    /\ UNCHANGED << BeepKeeps, last_beep_time, scale_macs, minGap, nAlerts, cycleAlerts,
                    cycleHit >>

\* on_message for the config topic: _scale_macs = set(data.get("scales", []))
ConfigMessage ==
    /\ \E S \in SUBSET Macs : scale_macs' = S
    /\ UNCHANGED << BeepKeeps, ticks, last_beep_time, sinceAlert, minGap, nAlerts,
                    cycleAlerts, cycleHit, nTicks >>

\* _check_scale_beep(results), called once per scan / drain cycle
CheckScaleBeep ==
    \E results \in ResultLists :
        LET k == IF Due THEN Alerts(results, scale_macs) ELSE 0 IN
        /\ cycleAlerts' = k
        /\ cycleHit' = (Alerts(results, scale_macs) = 1)
        /\ nAlerts' = nAlerts + k
        /\ last_beep_time' = IF k > 0 THEN ticks ELSE last_beep_time
        /\ sinceAlert' = IF k > 0 THEN 0 ELSE sinceAlert
        /\ minGap' = IF k > 1 THEN 0
                     ELSE IF k = 1 /\ nAlerts > 0 THEN Min(minGap, sinceAlert)
                     ELSE minGap
        /\ UNCHANGED << BeepKeeps, ticks, scale_macs, nTicks >>

BeepNext == Tick \/ ConfigMessage \/ CheckScaleBeep

(***************************************************************************)
(* UUID normalization (_norm_uuid).  A string is a sequence of characters. *)
(***************************************************************************)
HexDigits == << "0", "1", "2", "3", "4", "5", "6", "7", "8", "9",
                "a", "b", "c", "d", "e", "f" >>

\* "%02x" % b
Fmt02x(b) == << HexDigits[(b \div 16) + 1], HexDigits[(b % 16) + 1] >>

RECURSIVE FmtBytes(_)
FmtBytes(bs) == IF bs = << >> THEN << >> ELSE Fmt02x(Head(bs)) \o FmtBytes(Tail(bs))

\* str() of a 16-bit bluetooth.UUID: UUID(0x2a9d)
Str16(u) == << "U", "U", "I", "D", "(", "0", "x" >> \o FmtBytes(u) \o << ")" >>

\* the 128-bit UUID of a 16-bit one on the Bluetooth base, most significant
\* byte first
Expand16(u) ==
    << 0, 0, u[1], u[2], 0, 0, 16, 0, 128, 0, 0, 128, 95, 155, 52, 251 >>

\* str() of a 128-bit bluetooth.UUID: UUID('00002a9d-0000-1000-8000-00805f9b34fb')
Str128(b) ==
    << "U", "U", "I", "D", "(", "'" >>
      \o FmtBytes(SubSeq(b, 1, 4)) \o << "-" >> \o FmtBytes(SubSeq(b, 5, 6))
      \o << "-" >> \o FmtBytes(SubSeq(b, 7, 8)) \o << "-" >>
      \o FmtBytes(SubSeq(b, 9, 10)) \o << "-" >> \o FmtBytes(SubSeq(b, 11, 16))
      \o << "'", ")" >>

_BT_BASE_SUFFIX == FmtBytes(<< 0, 0, 16, 0, 128, 0, 0, 128, 95, 155, 52, 251 >>)

StartsWith(str, pre) == Len(str) >= Len(pre) /\ SubSeq(str, 1, Len(pre)) = pre

EndsWith(str, suf) ==
    Len(str) >= Len(suf) /\ SubSeq(str, Len(str) - Len(suf) + 1, Len(str)) = suf

\* str.lower()
LowerChar(c) ==
    CASE c = "A" -> "a" [] c = "B" -> "b" [] c = "C" -> "c" [] c = "D" -> "d"
      [] c = "E" -> "e" [] c = "F" -> "f" [] c = "U" -> "u" [] c = "I" -> "i"
      [] OTHER -> c

Lower(str) == [i \in 1..Len(str) |-> LowerChar(str[i])]

\* str.replace("-", "")
RECURSIVE NoDashes(_)
NoDashes(str) ==
    IF str = << >> THEN << >>
    ELSE (IF Head(str) = "-" THEN << >> ELSE << Head(str) >>) \o NoDashes(Tail(str))

\* variant of _norm_uuid that keeps the dashes of the 128-bit form
_norm_uuid_keep_dashes(str) ==
    IF StartsWith(str, << "U", "U", "I", "D", "(", "0", "x" >>) /\ EndsWith(str, << ")" >>)
    THEN << "0", "0", "0", "0" >> \o Lower(SubSeq(str, 8, Len(str) - 1)) \o _BT_BASE_SUFFIX
    ELSE IF StartsWith(str, << "U", "U", "I", "D", "(", "'" >>) /\ EndsWith(str, << "'", ")" >>)
    THEN Lower(SubSeq(str, 7, Len(str) - 2))
    ELSE NoDashes(Lower(str))

\* _norm_uuid(uuid) on s = str(uuid)
_norm_uuid(str) ==
    IF StartsWith(str, << "U", "U", "I", "D", "(", "0", "x" >>) /\ EndsWith(str, << ")" >>)
    THEN << "0", "0", "0", "0" >> \o Lower(SubSeq(str, 8, Len(str) - 1)) \o _BT_BASE_SUFFIX
    ELSE IF StartsWith(str, << "U", "U", "I", "D", "(", "'" >>) /\ EndsWith(str, << "'", ")" >>)
    THEN Lower(NoDashes(SubSeq(str, 7, Len(str) - 2)))
    ELSE NoDashes(Lower(str))

\* the bytes the 16-bit UUIDs of the model are made of
UuidBytes == {0, 1, 9, 10, 15, 16, 42, 157, 171, 255}

\* _norm_uuid on the 16-bit UUID object
NormShort ==
    /\ n_short = << >>
    /\ n_short' = _norm_uuid(Str16(u16))
    /\ UNCHANGED << ctlNoUuid, u16, n_full >>

\* _norm_uuid on the 128-bit UUID object
NormFull ==
    /\ n_full = << >>
    /\ n_full' = _norm_uuid(Str128(Expand16(u16)))
    /\ UNCHANGED << ctlNoUuid, u16, n_short >>

UuidNext == NormShort \/ NormFull

(***************************************************************************)
(* The characteristic operations of BleBridge, called one after the other  *)
(* on a bridge whose registry holds any of the profiles.                   *)
(***************************************************************************)
callKeeps == << board, char_subscribed, busy, scan_paused, subs_ready, pending, link,
                ble_active, mqttUp, brokerWild, ocPc, sPc, scanErr, rPc, polls, cur,
                errCause, nDone, nBus, limit, script, cbCount, lossCount, nSub,
                discSinceConn, lastEvents, rtrRadio, e2e, bufVars, ghostVars, loopVars,
                beepVars, uuidVars >>

\* what a radio read returns
ReadValues == { << >>, << 1 >>, << 1, 2 >> }

Call(op, u, radio, how, ret) ==
    [op |-> op, uuid |-> u, radio |-> radio, how |-> how, ret |-> ret]

\* await bridge.start_notify(u, make_publish_fn(u)); one task per UUID
CallStartNotify ==
    /\ Len(calls) < MaxCalls
    /\ \E u \in NotifyUuids \ bridge.notify_tasks :
         /\ bridge' = start_notify(bridge, u)
         /\ fw' = IF u \in bridge'.notify_tasks
                  THEN [fw EXCEPT ![u] = [st |-> "new", cancelled |-> FALSE,
                                          topic |-> make_publish_fn(u)[u]]]
                  ELSE fw
         /\ calls' = Append(calls, Call("start_notify", u, "none", "None", << >>))
    /\ UNCHANGED callKeeps

\* await bridge.write(u, data); char.write may raise
CallWrite ==
    /\ Len(calls) < MaxCalls
    /\ \E u \in UUIDS :
         \E how \in (IF write(bridge, u) = "none" THEN {"None"} ELSE {"None", "raised"}) :
            calls' = Append(calls, Call("write", u, write(bridge, u), how, << >>))
    /\ UNCHANGED << callKeeps, bridge, fw >>

\* await bridge.read(u); char.read may raise
CallRead ==
    /\ Len(calls) < MaxCalls
    /\ \E u \in UUIDS :
         \/ \E data \in ReadValues :
              calls' = Append(calls, Call("read", u,
                                          IF chars_get(bridge, u) THEN "read" ELSE "none",
                                          "bytes", read(bridge, u, data)))
         \/ /\ chars_get(bridge, u)
            /\ calls' = Append(calls, Call("read", u, "read", "raised", << >>))
    /\ UNCHANGED << callKeeps, bridge, fw >>

CallNext == CallStartNotify \/ CallWrite \/ CallRead

(***************************************************************************)
(* Specification                                                           *)
(***************************************************************************)
BufInit ==
    /\ raw_results = << >>
    /\ seen = EmptyTable
    /\ seen_cycle = 0
    /\ cap_logged = FALSE
    /\ dPc = "idle"
    /\ raw = << >>
    /\ out = {}
    /\ nRep = 0
    /\ accepted = {}
    /\ mcount = [k \in 1..MaxDelivered |-> 0]
    /\ discarded = {}
    /\ cycRep = 0
    /\ cycNote = 0
    /\ shown = [m \in Macs |-> 0]

BeepInit ==
    /\ ticks = 0
    /\ last_beep_time = 0
    /\ scale_macs = {}
    /\ sinceAlert = 0
    /\ minGap = DEBOUNCE_MS + 1
    /\ nAlerts = 0
    /\ cycleAlerts = 0
    /\ cycleHit = FALSE
    /\ nTicks = 0

UuidInit(u) ==
    /\ u16 = u
    /\ n_short = << >>
    /\ n_full = << >>

LoopInit(buffer) ==
    /\ m_raw = buffer
    /\ m_i = 0
    /\ m_seen = EmptyTable
    /\ m_results = {}
    /\ m_st = "loop"

CtlInitAt(n, sc, log, b, lk) ==
    /\ board \in Boards
    /\ char_subscribed = FALSE
    /\ busy = FALSE
    /\ scan_paused = FALSE
    /\ subs_ready = FALSE
    /\ pending = << >>
    /\ bridge = b
    /\ fw = [u \in NotifyUuids |-> NoTask]
    /\ link = lk
    /\ ble_active = (lk # "none")
    /\ mqttUp = TRUE
    /\ brokerWild = FALSE
    /\ ocPc = "start"
    /\ sPc = IF board = "esp32_s3" THEN "s_init" ELSE "b_top"
    /\ scanErr = FALSE
    /\ rPc = "idle"
    /\ polls = 0
    /\ cur = NoCmd
    /\ errCause = "none"
    /\ nDone = 0
    /\ nBus = 0
    /\ limit = n
    /\ script = sc
    /\ cbCount = 0
    /\ lossCount = 0
    /\ nSub = 0
    /\ discSinceConn = 0
    /\ lastEvents = log
    /\ rtrRadio = FALSE
    /\ e2e = "start"

CtlInitLog(n, sc, log) == CtlInitAt(n, sc, log, BridgeInit, "none") /\ calls = << >>

CtlInit(n, sc) == CtlInitLog(n, sc, "off")

InitWith(n, sc) ==
    CtlInit(n, sc) /\ BufInit /\ BeepInit /\ UuidInit(<< 0, 0 >>) /\ LoopInit(<< >>)

\* the session of the end-to-end scenario: connect, write, disconnect
Session ==
    << [t |-> "connect", msg |-> "ok"], [t |-> "write", msg |-> ""],
       [t |-> "disconnect", msg |-> ""] >>

\* after "await client.connect()" in main; the bus then delivers either any
\* MaxArrivals messages or the messages of the session
Init == InitWith(MaxArrivals, << >>) \/ InitWith(0, Session)

Other == Forwarder \/ PeerDrop \/ LocalClose \/ Scanner \/ Bus

Next == Router \/ Other

Spec == Init /\ [][Next]_vars

\* the main loop and the tasks are scheduled whenever they can run
LiveSpec ==
    /\ Init
    /\ [][Next]_vars
    /\ WF_vars(Router)
    /\ WF_vars(Forwarder)

\* the scan loop task is scheduled whenever it can run
ScanLiveSpec == Spec /\ WF_vars(Scanner)

\* a session in which the bridge's own read response comes back to it, the
\* wildcard subscription read/# covering the response topic
EchoSession ==
    << [t |-> "connect", msg |-> "ok"], [t |-> "read", msg |-> ""],
       [t |-> READ_RESPONSE, msg |-> ""] >>

EchoSpec == (Init \/ InitWith(0, EchoSession)) /\ [][Next]_vars

\* the same runs with the connection events recorded
EventInit ==
    /\ CtlInitLog(MaxArrivals, << >>, "") \/ CtlInitLog(0, Session, "")
    /\ BufInit /\ BeepInit /\ UuidInit(<< 0, 0 >>) /\ LoopInit(<< >>)

EventSpec == EventInit /\ [][Next]_vars

\* the same with a network link that drops while the shared radio scans
NetInit == InitWith(MaxArrivalsNet, << >>)

NetNext == Next \/ ScannerNet \/ BusNet

NetSpec == NetInit /\ [][NetNext]_vars

\* the buffer and the table under the radio's reports, no command arriving
DataInit == InitWith(0, << >>)

DataNext == StreamData \/ BatchData

DataSpec == DataInit /\ [][DataNext]_vars

\* the processing loop on every buffer of up to MaxReports reports
MergeInit ==
    /\ CtlInit(0, << >>)
    /\ board = "atom_echo"
    /\ BufInit
    /\ BeepInit
    /\ UuidInit(<< 0, 0 >>)
    /\ \E buffer \in SeqsUpTo(LoopReports, MaxReports) : LoopInit(buffer)

MergeSpec == MergeInit /\ [][Loop]_vars

\* bytes of the advertising data: lengths 0..3, the types 0x02/0x03 (service
\* UUIDs), 0x09 (name), 0xFF (manufacturer), the letter A
AdvBytes == {0, 1, 2, 3, 9, 65, 255}

\* the processing loop on one report with any advertising data of up to
\* MaxAdvLen bytes
ParseInit ==
    /\ CtlInit(0, << >>)
    /\ board = "atom_echo"
    /\ BufInit
    /\ BeepInit
    /\ UuidInit(<< 0, 0 >>)
    /\ \E adv \in SeqsUpTo(AdvBytes, MaxAdvLen) :
          LoopInit(<< Report(0, Addr1, -60, adv) >>)

ParseSpec == ParseInit /\ [][Loop]_vars

\* scale detection over the scan cycles, the configuration and the clock
BeepSpec == DataInit /\ [][BeepNext]_vars

\* the registries of the calls: the profiles and one holding every UUID
CallProfiles == Profiles \cup {UUIDS}

\* no connection, or a connection whose discovery returned one of the profiles
CallInit ==
    /\ \/ CtlInitAt(0, << >>, "off", BridgeInit, "none")
       \/ \E P \in CallProfiles :
            CtlInitAt(0, << >>, "off", [BridgeInit EXCEPT !.conn = "Conn", !.chars = P], "up")
    /\ calls = << >>
    /\ BufInit /\ BeepInit /\ UuidInit(<< 0, 0 >>) /\ LoopInit(<< >>)

CallSpec == CallInit /\ [][CallNext]_vars

\* _norm_uuid on both forms of every 16-bit UUID made of UuidBytes
NormInit ==
    /\ CtlInit(0, << >>)
    /\ BufInit
    /\ BeepInit
    /\ LoopInit(<< >>)
    /\ \E hi \in UuidBytes, lo \in UuidBytes : UuidInit(<< hi, lo >>)

NormSpec == NormInit /\ [][UuidNext]_vars

(***************************************************************************)
(* Properties                                                              *)
(***************************************************************************)
\* a batch scan in flight, or the indefinite streaming scan active
ScanRunning == sPc = "b_scanning" \/ bridge.streaming

\* a connection is open, or handle_connect is opening one
ConnOpenOrOpening == LinkOpen \/ rPc = "c_connecting"

\* the batch scan cycle holds _busy
BatchHoldsBusy == sPc \in {"b_scanning", "b_postwait", "b_pub", "b_err"}

\* C1: no reachable state has a scan running (batch scan in flight or
\* streaming scan active) while a BLE connection is open or being opened.
C1_ScanExcludesConnection == ~(ScanRunning /\ ConnOpenOrOpening)

\* C2: while a batch scan cycle is in flight (the scanner holds busy), no
\* command handler performs a radio operation, the link release and the
\* power-down of BleBridge.disconnect included.
C2_OneRadioOperation == BatchHoldsBusy => ~rtrRadio

\* C3: commands are executed one at a time in arrival order: the command in
\* execution is the one after the last finished, and the queue holds the
\* following ones in order, whoever appended them; none is skipped, reordered
\* or run twice.
C3_FifoOneAtATime ==
    /\ Executing => cur.id = nDone + 1
    /\ ~Executing => rPc \in {"idle", "err"}
    /\ \A i \in 1..Len(pending) :
         pending[i].id = nDone + (IF Executing THEN 1 ELSE 0) + i

C3_Witness ==
    /\ Executing
    /\ Len(pending) >= 2
    /\ \E i \in 1..Len(pending) : pending[i].t = BLE_DISCONNECTED

\* C4: an error raised by a command never ends the main loop: the error
\* event is published (a failing publish is swallowed) and the loop goes on;
\* every command enqueued is eventually executed (at every time, a later time
\* has all commands enqueued so far executed and the loop idle).
C4_ErrorsNeverStopTheLoop ==
    /\ [](rPc # "dead")
    /\ (rPc = "err") ~> (rPc = "idle")
    /\ []<>(nDone = NextId - 1 /\ rPc = "idle")

C4_Witness == rPc = "idle" /\ errCause # "none" /\ pending # << >>

\* C5: when discovery times out, BleBridge.connect has torn the partial
\* connection down before raising (no link, empty registry, no forwarders),
\* and when handle_connect is left paused and busy are clear and, under the
\* streaming policy, the indefinite scan runs again.
C5_DiscoveryTimeoutRecovery ==
    [][ (rPc = "c_tdisc" /\ rPc' # rPc) =>
          /\ rPc' = "err" /\ errCause' = "timeout"
          /\ bridge'.conn = "None" /\ link' = "none"
          /\ bridge'.chars = {}
          /\ bridge'.notify_tasks = {}
          /\ \A u \in NotifyUuids : fw'[u].st \in {"none", "done"}
          /\ ~scan_paused'
          /\ ~busy'
          /\ CONTINUOUS_SCAN => bridge'.streaming ]_vars

C5_Witness == rPc = "err" /\ errCause = "timeout" /\ cur = NoCmd

\* C6: for one registration of the callback, however many forwarders end
\* because the link is lost, the callback runs exactly once (one internal
\* link-lost command is enqueued).
C6_LinkLostSignalOnce ==
    /\ cbCount <= 1
    /\ lossCount >= 1 => cbCount = 1

C6_Witness == lossCount = 2 /\ cbCount = 1

\* C7: a forwarder that ends because BleBridge.disconnect cancelled it, or
\* that sees the link closed by that disconnect, does not run the callback.
C7_ExplicitDisconnectIsSilent ==
    [][ \A u \in NotifyUuids :
          ( /\ fw[u].st # "done"
            /\ fw'[u].st = "done"
            /\ (fw[u].cancelled \/ link = "closed") )
          => (cbCount' = cbCount /\ pending' = pending) ]_vars

C7_Witness ==
    /\ rPc \in {"c_disc", "d_disc"}
    /\ link = "closed"
    /\ cbCount = 0
    /\ \E u \in NotifyUuids : fw[u].st = "done" /\ fw[u].cancelled

\* a call of BleBridge.disconnect returns in this step
DisconnectReturns ==
    \/ rPc \in {"idle", "c_wait", "c_disc"} /\ rPc' = "c_connecting"
    \/ rPc = "c_tdisc" /\ rPc' = "err"
    \/ rPc \in {"idle", "d_disc"} /\ rPc' = "d_pub"
    \/ rPc \in {"idle", "u_disc"} /\ rPc' = "u_pub"

\* no link held, empty registry, no forwarder registered
TornDown(b) == b.conn = "None" /\ b.chars = {} /\ b.notify_tasks = {}

\* C8: after every call of BleBridge.disconnect the registry is empty, no
\* link is held and no forwarder is registered (no error leaves the call);
\* a call made in the state a previous call produced changes nothing.
C8_DisconnectIdempotent ==
    [][ DisconnectReturns =>
          /\ TornDown(bridge')
          /\ bridge'.disconnect_fired
          /\ rPc' # "dead"
          /\ (TornDown(bridge) /\ bridge.disconnect_fired) =>
               /\ bridge'.on_disconnect = bridge.on_disconnect
               /\ fw' = fw
               /\ link' = link
               /\ (rPc' \in {"d_pub", "u_pub"} /\ ~ble_active) => ~ble_active' ]_vars

C8_Witness ==
    /\ rPc = "d_pub"
    /\ nDone = 1
    /\ discSinceConn = 1
    /\ TornDown(bridge)

\* what both disconnect handlers leave behind
Disconnected ==
    /\ TornDown(bridge)
    /\ link = "none"
    /\ ~char_subscribed
    /\ ~scan_paused
    /\ CONTINUOUS_SCAN => bridge.streaming

\* C9: handle_disconnect and handle_unexpected_disconnect started from the
\* same state end in the same state: each step of one is a step of the
\* other, both leave no link, an empty registry, no forwarders, the
\* subscription flag and paused cleared, scanning resumed, and one
\* disconnected event published when the handler returns.
C9_SameEndState ==
    [][ /\ (rPc = "idle" /\ rPc' = "d_pub") =>
             handle_unexpected_disconnect(disconnect_end(disconnect_begin(bridge)))
        /\ (rPc = "idle" /\ rPc' = "u_pub") =>
             handle_disconnect(disconnect_end(disconnect_begin(bridge)))
        /\ (rPc = "idle" /\ rPc' \in {"d_disc", "u_disc"}) =>
             bridge' = disconnect_begin(bridge)
        /\ (rPc = "d_disc" /\ rPc' = "d_pub") =>
             handle_unexpected_disconnect(disconnect_end(bridge))
        /\ (rPc = "u_disc" /\ rPc' = "u_pub") =>
             handle_disconnect(disconnect_end(bridge))
        /\ (rPc \in {"d_pub", "u_pub"} /\ rPc' # rPc) => Disconnected'
        /\ (rPc \in {"d_pub", "u_pub"} /\ rPc' = "idle") =>
             discSinceConn' = discSinceConn + 1 ]_vars

C9_Witness ==
    /\ rPc = "idle"
    /\ nDone = 3
    /\ discSinceConn = 2
    /\ errCause = "none"
    /\ Disconnected

\* C10: after connect, write, disconnect were enqueued in that order and
\* processed (connect succeeding), the registry is empty, every forwarder of
\* the session has been cancelled, paused is clear and the disconnected
\* event has been published exactly once.
C10_SessionEnd ==
    e2e = "cwd" =>
      /\ bridge.chars = {}
      /\ bridge.notify_tasks = {}
      /\ \A u \in NotifyUuids : fw[u].st \in {"none", "done"} \/ fw[u].cancelled
      /\ ~scan_paused
      /\ discSinceConn = 1

C10_Witness ==
    /\ e2e = "cwd"
    /\ \E u \in NotifyUuids : fw[u].cancelled

\* C11: the bridge holds at most one open link: every open link is the one
\* the bridge references, and a link is opened only after the full teardown
\* of the previous connection (forwarders cancelled and ended, link released,
\* registry cleared).
C11_OneConnection ==
    /\ [](link # "none" => bridge.conn # "None")
    /\ [][ (link' = "up" /\ link # "up") =>
             (TornDown(bridge) /\ link = "none" /\ TasksSettled) ]_vars

C11_Witness ==
    /\ rPc = "c_discover"
    /\ link = "up"
    /\ bridge.on_disconnect
    /\ nDone >= 1

\* C12: every batch scan cycle that sets busy eventually clears it, whether
\* the scan, the hook or the publish succeeded or raised; a failure goes
\* through the error report back to the scheduler, which starts a later
\* cycle unless a command pauses scanning or the bus is not ready.
C12_BatchBusyRelease ==
    /\ BatchHoldsBusy ~> (sPc = "b_top" /\ ~busy)
    /\ (sPc = "b_err") ~> (sPc = "b_scanning" \/ scan_paused \/ ~MqttReady)
    /\ [][ (sPc = "b_err" /\ sPc' # sPc) => (sPc' = "b_top" /\ ~busy') ]_vars

C12_Witness == sPc = "b_top" /\ ~busy /\ scanErr

\* C13: under the batch policy a connect command sets paused and waits at
\* most WAIT_POLLS polls for busy to clear; when busy is still set after
\* them it is rejected: paused is cleared, an error event is published, busy
\* stays with the scan, the radio is not touched (no disconnect, no connect)
\* and the scan cycle goes on undisturbed.
C13_BusyRejection ==
    /\ [](polls <= WAIT_POLLS)
    /\ [](rPc \in {"c_wait", "c_rej"} => (~CONTINUOUS_SCAN /\ cur.t = "connect"))
    /\ [](rPc = "c_wait" => scan_paused)
    /\ [][ (rPc = "c_wait" /\ rPc' = "c_rej") =>
             /\ polls = WAIT_POLLS
             /\ busy /\ busy'
             /\ ~scan_paused'
             /\ ~rtrRadio'
             /\ << bridge, fw, link, ble_active, sPc, subs_ready >>'
                  = << bridge, fw, link, ble_active, sPc, subs_ready >> ]_vars
    /\ [][ (rPc = "c_rej" /\ rPc' # rPc) =>
             /\ rPc' = "idle" /\ errCause' = "none"
             /\ ~rtrRadio'
             /\ << bridge, fw, link, ble_active, sPc, busy, scan_paused, subs_ready >>'
                  = << bridge, fw, link, ble_active, sPc, busy, scan_paused, subs_ready >> ]_vars

C13_Witness ==
    /\ rPc = "c_rej"
    /\ BatchHoldsBusy
    /\ busy
    /\ ~scan_paused
    /\ bridge.conn = "None"

\* handle_connect is running past its entry (the wait loop excluded)
InConnect == rPc \in {"c_disc", "c_connecting", "c_discover", "c_tdisc", "c_sub", "c_pub"}

\* C14: under the streaming policy only a connect command stops the
\* indefinite scan (the scan loop never does, whatever it reads in paused);
\* when that command fails, or the session ends through handle_disconnect or
\* the link-lost teardown, the indefinite scan is running again.
C14_StreamingPauseProtocol ==
    /\ [](~CONTINUOUS_SCAN => ~bridge.streaming)
    /\ [][ (bridge.streaming /\ ~bridge'.streaming) =>
             /\ rPc = "idle"
             /\ pending # << >>
             /\ pending[1].t = "connect"
             /\ cur' = pending[1]
             /\ InConnect' ]_vars
    /\ [][ (sPc' # sPc /\ bridge.streaming) => bridge'.streaming ]_vars
    /\ [][ (CONTINUOUS_SCAN /\ rPc' = "err" /\ rPc # "err"
              /\ (InConnect \/ (rPc = "idle" /\ pending[1].t = "connect")))
           => bridge'.streaming ]_vars
    /\ [][ (CONTINUOUS_SCAN /\ rPc' \in {"d_pub", "u_pub"} /\ rPc' # rPc)
           => bridge'.streaming ]_vars

C14_Witness ==
    /\ CONTINUOUS_SCAN
    /\ rPc = "u_pub"
    /\ bridge.streaming
    /\ bridge.on_disconnect
    /\ cbCount = 1
    /\ sPc = "s_sleep"
    /\ scan_paused = FALSE

\* C15: across the process lifetime handle_connect subscribes to the
\* write/# and read/# topics exactly once; a later successful connect, also
\* one that follows a disconnect, does not subscribe again.
C15_LazySubscribeOnce == nSub <= 1

\* C16: Drain without loss or double counting: on the streaming board every
\* report the event callback appended to the buffer is merged into the dedup
\* table by exactly one drain: it is never merged twice, and unless it still
\* waits in the buffer or in the list the running drain took over (or
\* stop_streaming / start_streaming discarded the buffer) it has been merged.
\* Stated for the reports that parse.
C16_DrainWithoutLoss ==
    CONTINUOUS_SCAN =>
        \A r \in {a \in accepted : ~ParseRaises(a)} :
            /\ mcount[r.n] <= 1
            /\ \/ mcount[r.n] = 1
               \/ r.n \in Serials(raw_results) \cup Serials(raw) \cup discarded

\* C17: Cap enforcement: in a scan cycle (a scan() call, or the span between
\* two buffer swaps of the streaming scan) the buffer holds the reports
\* delivered in the cycle, in order, up to MAX_SCAN_ENTRIES of them and never
\* more; once more than MAX_SCAN_ENTRIES were delivered exactly
\* MAX_SCAN_ENTRIES are retained and the cap notice was printed exactly once.
C17_CapEnforcement ==
    /\ Len(raw_results) <= MAX_SCAN_ENTRIES
    /\ \A i \in 1..Len(raw_results) : raw_results[i].n = nRep - cycRep + i
    /\ cycRep <= MAX_SCAN_ENTRIES => (Len(raw_results) = cycRep /\ cycNote = 0)
    /\ cycRep > MAX_SCAN_ENTRIES => (Len(raw_results) = MAX_SCAN_ENTRIES /\ cycNote = 1)

C17_Witness ==
    /\ cycRep > MAX_SCAN_ENTRIES + 1
    /\ Len(raw_results) = MAX_SCAN_ENTRIES
    /\ cycNote = 1
    /\ cap_logged

DrainReturns == CONTINUOUS_SCAN /\ dPc = "merging" /\ raw = << >> /\ dPc' = "idle"

\* C18: Aging: the cycle counter stays below SEEN_RESET_CYCLES; a drain that
\* returns gives back the filtered table, and the one at which the counter
\* reaches SEEN_RESET_CYCLES leaves the table empty and the counter at 0,
\* every other one keeps the table and adds one to the counter; so an address
\* is named by at most SEEN_RESET_CYCLES returned lists in a row without one
\* of its reports being merged again.
C18_Aging ==
    /\ [](seen_cycle \in 0..(SEEN_RESET_CYCLES - 1))
    /\ [][ DrainReturns =>
             /\ out' = Results(seen)
             /\ IF seen_cycle + 1 = SEEN_RESET_CYCLES
                THEN seen' = EmptyTable /\ seen_cycle' = 0
                ELSE seen' = seen /\ seen_cycle' = seen_cycle + 1 ]_vars
    /\ [](\A m \in Macs : shown[m] <= SEEN_RESET_CYCLES)

C18_Witness ==
    /\ CONTINUOUS_SCAN
    /\ dPc = "idle"
    /\ shown[MacOf(Addr1)] = SEEN_RESET_CYCLES
    /\ seen = EmptyTable
    /\ seen_cycle = 0
    /\ \E e \in out : e.address = MacOf(Addr1)

\* the reports of address m the loop has merged so far, as indices of m_raw
MergedOf(m) == {i \in 1..m_i : MacOf(m_raw[i].addr) = m}

EntryOf(i) == _parse_raw_entry(m_raw[i])

FirstOf(I) == CHOOSE i \in I : \A j \in I : i <= j

AddressesOf(list) == {e.address : e \in list}

\* C20: Noise filtering: the returned list names an address exactly when the
\* merged entry of the address has a non-empty name or manufacturer data,
\* which is exactly when one of its reports carried a name or manufacturer
\* data; an address whose reports all lacked both is never named, whatever
\* its rssi.
C20_NoiseFiltering ==
    /\ [][ (m_st = "loop" /\ m_st' = "returned") =>
             /\ m_results' \subseteq {m_seen[m] : m \in DOMAIN m_seen}
             /\ AddressesOf(m_results') =
                  {m \in DOMAIN m_seen : m_seen[m].name # << >> \/ MfrData(m_seen[m])} ]_vars
    /\ [](m_st = "returned" =>
             AddressesOf(m_results) =
               {MacOf(m_raw[i].addr) : i \in {j \in 1..Len(m_raw) :
                    EntryOf(j).name # << >> \/ MfrData(EntryOf(j))}})

C20_Witness ==
    /\ m_st = "returned"
    /\ Len(m_raw) = 3
    /\ m_raw[1].addr = Addr2 /\ m_raw[1].adv = AdvNone /\ m_raw[1].rssi = -55
    /\ m_raw[2].addr = Addr1 /\ m_raw[2].adv = AdvNameA /\ m_raw[2].rssi = -70
    /\ m_raw[3].addr = Addr1 /\ m_raw[3].adv = AdvMfrIdOnly
    /\ AddressesOf(m_results) = {MacOf(Addr1)}

\* C21: Advertising-data parsing never errors: for every advertising-data
\* byte string _parse_raw_entry returns instead of raising, and the entry it
\* returns carries the address and the rssi of the report.
C21_ParseNeverErrors ==
    /\ m_st # "raised"
    /\ m_i = 1 =>
          /\ DOMAIN m_seen = {MacOf(m_raw[1].addr)}
          /\ m_seen[MacOf(m_raw[1].addr)].rssi = m_raw[1].rssi

\* C22: Scale-detection debounce: two alerts are never less than the debounce
\* window apart, one call of _check_scale_beep (one scan / drain cycle) fires
\* at most one alert whatever the number of matching results, and a step
\* fires an alert only with a non-empty target set.
C22_ScaleDebounce ==
    /\ [](minGap >= DEBOUNCE_MS)
    /\ [](cycleAlerts <= 1)
    /\ [][ nAlerts' > nAlerts => (scale_macs # {} /\ sinceAlert >= DEBOUNCE_MS) ]_vars

C22_Witness ==
    /\ nAlerts = 2
    /\ cycleAlerts = 1
    /\ minGap = DEBOUNCE_MS + 1
    /\ scale_macs = Macs
    /\ sinceAlert = 0

LowerHex == {HexDigits[i] : i \in 1..16}

\* C23: UUID normalization: for every 16-bit UUID, normalizing the shorthand
\* form and normalizing the 128-bit Bluetooth-base expansion give the same
\* string, 32 characters long and made of lower-case hex digits only.
C23_UuidNormalization ==
    /\ n_short # << >> =>
         (Len(n_short) = 32 /\ \A i \in 1..Len(n_short) : n_short[i] \in LowerHex)
    /\ n_full # << >> =>
         (Len(n_full) = 32 /\ \A i \in 1..Len(n_full) : n_full[i] \in LowerHex)
    /\ (n_short # << >> /\ n_full # << >>) => n_short = n_full

C23_Witness ==
    /\ u16 = << 42, 157 >>
    /\ n_short = << "0", "0", "0", "0", "2", "a", "9", "d" >> \o _BT_BASE_SUFFIX
    /\ n_full = n_short

ConnectCauses == {"payload", "link", "timeout", "discovery", "subscribe", "publish"}

\* the router is about to run, or is inside, the try block of handle_connect
AtConnect ==
    \/ InConnect
    \/ rPc = "c_wait"
    \/ rPc = "idle" /\ pending # << >> /\ pending[1].t = "connect"

\* C24: every failing connect resumes scanning at once: the step in which
\* handle_connect raises, whatever the cause, leaves paused and busy clear
\* and, under the streaming policy, the indefinite scan running; the error is
\* then in main's except clause, whose only step is publish_error, after
\* which the loop is idle again.
C24_FailedConnectResumesScanning ==
    /\ [][ (AtConnect /\ rPc' = "err") =>
              /\ errCause' \in ConnectCauses
              /\ ~scan_paused'
              /\ ~busy'
              /\ (CONTINUOUS_SCAN => bridge'.streaming)
              /\ cur' = NoCmd ]_vars
    /\ [][ (rPc = "err" /\ rPc' # "err") =>
              (rPc' = "idle" /\ errCause' = errCause /\ pending' = pending) ]_vars

C24_Witness ==
    /\ rPc = "err"
    /\ errCause = "subscribe"
    /\ CONTINUOUS_SCAN
    /\ bridge.streaming
    /\ bridge.conn # "None"
    /\ ~scan_paused
    /\ ~busy

\* C25: after any failed connect command no connection is left behind: when
\* handle_connect has raised after the link was requested (link failure,
\* discovery timeout, discovery error, failed subscribe, failed publish of
\* the connected event), BleBridge holds no open link, the registry is empty
\* and no notify-forwarder is running.
C25_NoConnectionAfterFailedConnect ==
    (rPc = "err" /\ errCause \in (ConnectCauses \ {"payload"})) =>
        /\ ~LinkOpen
        /\ bridge.chars = {}
        /\ bridge.notify_tasks = {}
        /\ \A u \in NotifyUuids : fw[u].st \in {"none", "done"}

\* C26: a malformed connect command is dropped without effect on the
\* session: when the main loop pops a connect command whose payload cannot
\* be parsed while a connection is open, the step that ends in main's except
\* clause leaves the paused flag, the connection with its registry and
\* forwarders, and the scan-running state as they were.
C26_MalformedConnectNoEffect ==
    [][ (rPc = "idle" /\ LinkOpen /\ rPc' = "err" /\ errCause' = "payload") =>
          /\ scan_paused' = scan_paused
          /\ bridge'.streaming = bridge.streaming
          /\ bridge'.conn = bridge.conn
          /\ bridge'.chars = bridge.chars
          /\ bridge'.notify_tasks = bridge.notify_tasks
          /\ fw' = fw
          /\ link' = link ]_vars

\* C27: a link-lost command only tears down the connection that raised it:
\* the teardown of handle_unexpected_disconnect never closes a link that is
\* up and whose registration of the callback has not fired (cbCount is reset
\* by set_on_disconnect, so the command executing then was enqueued for an
\* earlier connection).
C27_LinkLostOnlyItsConnection ==
    [][ (rPc = "u_disc" /\ rPc' = "u_pub") =>
          ~(link = "up" /\ bridge.conn # "None" /\ cbCount = 0) ]_vars

\* C28: the disconnected event is published at most once per connection:
\* once a connected event has been published and a disconnected event has
\* followed it, the link-lost handler publishes no further disconnected
\* event before the next connected event (the link loss was detected while
\* an explicit disconnect was queued or before it arrived).
C28_DisconnectedAtMostOnce ==
    [][ (lastEvents = "cd" /\ rPc = "u_pub") =>
          discSinceConn' = discSinceConn ]_vars

\* C29: every announced connection is announced as ended: a connected event
\* is never published while the last connection event published is a
\* connected event.
C29_ConnectedThenDisconnected ==
    [][ (rPc = "c_pub" /\ rPc' = "idle") => lastEvents # "c" ]_vars

\* C30: peer link loss is recovered without a host command: whenever the
\* peer has dropped the link of an announced connection and the main loop is
\* idle with an empty queue, a notify-forwarder is still there to detect the
\* loss and raise the internal link-lost command.
C30_LinkLossRecovered ==
    (/\ lastEvents = "c"
     /\ bridge.conn # "None"
     /\ link = "peer_lost"
     /\ rPc = "idle"
     /\ pending = << >>)
    => \E u \in NotifyUuids : fw[u].st \notin {"none", "done"}

\* C31: the streaming scan loop's first start respects a pause: the step in
\* which the scan loop calls start_streaming for the first time is not taken
\* while paused is set.
C31_FirstStartRespectsPause ==
    [][ (sPc = "s_init" /\ sPc' = "s_top") => ~scan_paused ]_vars

\* C32: subscriptions are assumed valid only if the link never dropped: on
\* the board that powers the radio down after a scan, no step of the batch
\* scan loop sets the subscriptions-ready flag while on_connect, having reset
\* the flag after a reconnect, is still subscribing.
C32_ReadyOnlyAfterResubscribe ==
    [][ (sPc' # sPc /\ ~subs_ready /\ subs_ready') => ocPc # "subscribing" ]_vars

\* what handle_connect has set up when it publishes the connected event
ReadyToAnnounce ==
    /\ bridge.notify_tasks = {u \in bridge.chars : "notify" \in Props(u)}
    /\ \A u \in bridge.notify_tasks : fw[u].st # "none" /\ fw[u].topic = u
    /\ bridge.on_disconnect
    /\ bridge.disconnect_fired => cbCount >= 1

\* C33: the connected event is published last: the publish of the connected
\* event is the step in which handle_connect returns; when it is taken a
\* forwarder has been started for every discovered characteristic advertising
\* notify, each with the topic of its own characteristic, and the link-lost
\* callback is registered and armed (or has fired since); a step in which
\* handle_connect raises is not that step, and nothing is set up any more
\* after a publish.
C33_ConnectedPublishedLast ==
    /\ [][ (rPc = "c_pub" /\ rPc' = "idle") =>
             /\ ReadyToAnnounce
             /\ errCause' = "none"
             /\ bridge' = bridge /\ fw' = fw ]_vars
    /\ [][ (AtConnect /\ rPc' = "err") =>
             /\ discSinceConn' = discSinceConn
             /\ errCause' # "none" ]_vars
    /\ [][ (rPc # "c_pub" /\ rPc' = "c_pub") =>
             /\ bridge'.on_disconnect /\ ~bridge'.disconnect_fired
             /\ \A u \in bridge'.notify_tasks : fw'[u].st = "new" ]_vars

C33_Witness ==
    /\ rPc = "idle"
    /\ cur = NoCmd
    /\ nDone = 1
    /\ errCause = "none"
    /\ bridge.notify_tasks = {"fff1", "fff2"}
    /\ bridge.on_disconnect
    /\ \A u \in bridge.notify_tasks : fw[u].st = "new" /\ fw[u].topic = u

\* C34: no drain while paused: under the streaming policy the scan loop
\* reaches drain_results, the detection hook and the publish of the results
\* only from the publish-interval sleep and only with paused clear; a pause
\* set during the sleep sends the loop back to its head without draining,
\* and the loop does not begin the sleep while paused.
C34_NoDrainWhilePaused ==
    /\ [][ (sPc # "s_pub" /\ sPc' = "s_pub") =>
             (sPc = "s_sleep" /\ ~scan_paused) ]_vars
    /\ [][ (sPc = "s_sleep" /\ scan_paused /\ sPc' # sPc) => sPc' = "s_top" ]_vars
    /\ [][ (sPc # "s_sleep" /\ sPc' = "s_sleep") => ~scan_paused ]_vars

C34_Witness ==
    /\ CONTINUOUS_SCAN
    /\ sPc = "s_sleep"
    /\ scan_paused
    /\ rPc = "c_discover"
    /\ ~bridge.streaming

\* C35: the alert fires once the window has elapsed: a call of
\* _check_scale_beep whose results hold a configured target address fires the
\* alert and sets the debounce timestamp to the current time whenever at
\* least the debounce window has passed since the previous alert, and also
\* when no alert has fired since startup.
C35_AlertWhenWindowElapsed ==
    [][ (/\ nTicks' = nTicks /\ scale_macs' = scale_macs
         /\ cycleHit'
         /\ (nAlerts = 0 \/ sinceAlert >= DEBOUNCE_MS))
        => (nAlerts' = nAlerts + 1 /\ last_beep_time' = ticks) ]_vars

\* C36: operations on a characteristic the registry does not hold are no-ops:
\* start_notify spawns no forwarder, write issues no radio write, read issues
\* no radio read and returns empty bytes; none of them raises or changes the
\* bridge.
C36_UnknownCharNoOp ==
    [][ (Len(calls') = Len(calls) + 1) =>
        LET c == calls'[Len(calls')] IN
        (c.uuid \notin bridge.chars) =>
            /\ bridge' = bridge
            /\ fw' = fw
            /\ c.radio = "none"
            /\ c.how # "raised"
            /\ (c.op = "read") => (c.how = "bytes" /\ c.ret = << >>) ]_vars

C36_Witness ==
    /\ bridge.conn = "Conn"
    /\ bridge.chars = {"2a9d", "fff1"}
    /\ bridge.notify_tasks = {}
    /\ \A u \in NotifyUuids : fw[u] = NoTask
    /\ Len(calls) = 3
    /\ \A i \in 1..3 : calls[i].uuid \in {"fff2", "fff3"} /\ calls[i].radio = "none"
    /\ {calls[i].op : i \in 1..3} = {"start_notify", "write", "read"}

\* C37: a write asks for a response exactly when the characteristic's
\* properties include plain write; a characteristic that supports only
\* write-without-response is written in the unacknowledged mode.
C37_WriteMode ==
    \A i \in 1..Len(calls) :
        (calls[i].op = "write" /\ calls[i].uuid \in bridge.chars) =>
            /\ calls[i].radio = "write_response" <=> "write" \in Props(calls[i].uuid)
            /\ calls[i].radio = "write_no_response" <=> "write" \notin Props(calls[i].uuid)

C37_Witness ==
    /\ bridge.chars = UUIDS
    /\ Len(calls) = 3
    /\ calls[1] = Call("write", "fff1", "write_response", "None", << >>)
    /\ calls[2] = Call("write", "fff2", "write_no_response", "None", << >>)
    /\ calls[3] = Call("write", "fff3", "write_response", "None", << >>)

\* a forwarder that will publish nothing any more: never started, finished,
\* or cancelled and waiting for the CancelledError
Silenced(t) == t.st \in {"none", "done"} \/ t.cancelled

\* C38: no notify/<uuid> message comes from a forwarder of a connection after
\* the disconnected event of that connection was published, however the
\* cancelled tasks are scheduled: while the event is published every
\* forwarder is silenced, a cancelled forwarder neither begins nor completes
\* a publish, and forwarders that can publish come only from a later
\* handle_connect.
C38_NoNotifyAfterDisconnected ==
    /\ [](rPc \in {"d_pub", "u_pub"} => \A u \in NotifyUuids : Silenced(fw[u]))
    /\ [][ \A u \in NotifyUuids :
             (fw[u].cancelled /\ fw'[u] # fw[u]) =>
                 \/ fw'[u].st = "done"
                 \/ (fw'[u].st = "new" /\ ~fw'[u].cancelled /\ rPc' = "c_pub") ]_vars
    /\ [][ \A u \in NotifyUuids :
             (Silenced(fw[u]) /\ ~Silenced(fw'[u])) =>
                 (rPc \in {"c_discover", "c_sub"} /\ rPc' = "c_pub"
                  /\ fw'[u].st = "new") ]_vars

C38_Witness ==
    /\ rPc = "idle"
    /\ nDone = 2
    /\ errCause = "none"
    /\ bridge.conn = "None"
    /\ bridge.notify_tasks = {}
    /\ fw["fff1"].st = "publishing" /\ fw["fff1"].cancelled
    /\ fw["fff2"].st = "waiting" /\ fw["fff2"].cancelled

\* C39: the busy flag has a single owner.  It is set exactly while the batch
\* scanner is inside a scan cycle or handle_connect is past its entry, never
\* both; either of them sets it only when it is clear; it is cleared only by
\* the one that set it; and no step of a command handler, a rejected or
\* failing connect included, clears it while a scan cycle is in flight.
C39_BusySingleOwner ==
    /\ [](busy <=> (BatchHoldsBusy \/ InConnect))
    /\ [](~(BatchHoldsBusy /\ InConnect))
    /\ [][ (~BatchHoldsBusy /\ BatchHoldsBusy') => (~busy /\ busy') ]_vars
    /\ [][ (~InConnect /\ InConnect') => (~busy /\ busy') ]_vars
    /\ [][ (busy /\ ~busy') =>
             \/ (BatchHoldsBusy /\ ~BatchHoldsBusy' /\ rPc' = rPc)
             \/ (InConnect /\ ~InConnect' /\ sPc' = sPc) ]_vars
    /\ [][ (BatchHoldsBusy /\ rPc' # rPc) => (busy' /\ sPc' = sPc) ]_vars

C39_Witness ==
    /\ rPc = "c_rej"
    /\ cur.t = "connect"
    /\ sPc = "b_pub"
    /\ busy
    /\ polls = 0

\* C40: a message on read/<uuid>/response, which the subscription read/#
\* brings back to the bridge, is taken from the queue and dropped: no radio
\* read, no publish, no error, and the connection stays as it is.
C40_ReadResponseIgnored ==
    [][ (/\ rPc = "idle"
         /\ pending # << >>
         /\ HasResponse(pending[PopIndex(pending)].t)
         /\ pending' = Remove(pending, PopIndex(pending)))
        => (/\ rPc' = "idle"
            /\ ~rtrRadio'
            /\ errCause' = "none"
            /\ << bridge, fw, link, ble_active >>' = << bridge, fw, link, ble_active >>) ]_vars

C40_Witness ==
    /\ limit = 0
    /\ script = << >>
    /\ nBus = 3
    /\ nDone = 3
    /\ pending = << >>
    /\ rPc = "idle"
    /\ errCause = "none"
    /\ bridge.conn = "Conn"
    /\ link = "up"

====
